---- MODULE Spec2Model ----
(***************************************************************************)
(* statsdproxy: the buffered UDP Upstream driven by the server loop, the   *)
(* sliding-window CardinalityLimit, the AggregateMetrics stage, Metric and *)
(* its tags, the tag and sampling stages, the chain main builds and the    *)
(* embeddable metric sink.                                                 *)
(*                                                                         *)
(* Bytes are kept as run-length sequences: a run [b |-> c, n |-> k] is k   *)
(* copies of the byte c, so that a line of 8192 bytes is one record and    *)
(* BUFSIZE keeps its real value.                                           *)
(***************************************************************************)
EXTENDS Integers, Sequences, FiniteSets, TLC

VARIABLES
    now,            \* the wall clock (SystemTime::now), whole seconds
    stop,           \* Server::run: the AtomicBool set by the signal handlers
    pc,             \* Server::run: position of the loop
    lines,          \* Server::run: segments of the current datagram still to handle
    received,       \* history: datagrams returned by recv_from, in order
    buffer,         \* Upstream.buffer, the whole [u8; BUFSIZE] array
    buf_used,       \* Upstream.buf_used
    last_sent_at,   \* Upstream.last_sent_at
    sent,           \* history: datagrams handed to socket.send, in order
    quotas,         \* CardinalityLimit.quotas
    forwarded,      \* history: (second, hash) of metrics CardinalityLimit passed on
    last_submit,    \* history: the latest CardinalityLimit::submit and its outcome
    config,         \* AggregateMetrics.config
    metrics_map,    \* AggregateMetrics.metrics_map
    last_flushed_at,\* AggregateMetrics.last_flushed_at
    next_out,       \* history: metrics AggregateMetrics submitted to its next stage
    since_flush,    \* history: metrics submitted to AggregateMetrics since its last flush
    last_poll,      \* history: the latest AggregateMetrics::poll and its outcome
    submitted,      \* history: metrics Server::run passed to submit of the chain head
                    \* (with the second of the call where the stage reads the clock)
    head_call,      \* history: the latest call Server::run made on the chain head
    tag_quotas,     \* TagCardinalityLimit.quotas
    tag_out,        \* history: metrics TagCardinalityLimit submitted to its next stage
    tag_last,       \* history: the latest TagCardinalityLimit::submit
    self_metric,    \* a Metric (types.rs): raw and tags_pos
    last_call,      \* history: the latest method called on that Metric
    stage,          \* a tag or sampling stage: which one, and its configuration
    stage_out,      \* history: the calls that stage made on its next stage
    stage_last,     \* history: the latest call made on that stage
    middlewares,    \* main: config.middlewares, the kinds in configured order
    client,         \* main: the chain built, from its head down to the Upstream
    pipe_at,        \* the part of the chain whose submit holds the metric now
    pipe_trace,     \* history: each submit on a stage of the chain, with its metric
    sink_next,      \* StatsdProxyMetricSink.next: the ThreadLocal slots
    emit_pc,        \* StatsdProxyMetricSink::emit: position of each producer thread
    emit_log        \* history: the metrics each producer has emitted

vars == <<now, stop, pc, lines, received, buffer, buf_used, last_sent_at, sent,
          quotas, forwarded, last_submit,
          config, metrics_map, last_flushed_at, next_out, since_flush, last_poll,
          submitted, head_call, tag_quotas, tag_out, tag_last, self_metric, last_call,
          stage, stage_out, stage_last, middlewares, client, pipe_at, pipe_trace,
          sink_next, emit_pc, emit_log>>

upVars == <<buffer, buf_used, last_sent_at, sent>>
srvVars == <<stop, pc, lines, received>>
clVars == <<quotas, forwarded, last_submit>>
aggVars == <<config, metrics_map, last_flushed_at, next_out, since_flush, last_poll>>
callVars == <<submitted, head_call>>
tagVars == <<tag_quotas, tag_out, tag_last>>
tyVars == <<self_metric, last_call>>
stVars == <<stage, stage_out, stage_last>>
pipeVars == <<middlewares, client, pipe_at, pipe_trace>>
sinkVars == <<sink_next, emit_pc, emit_log>>

(***************************************************************************)
(* Bounds of the model.                                                    *)
(***************************************************************************)
StartTime == 7200      \* first clock reading of a run, seconds since the epoch
MaxClock == 2          \* the clock stays within StartTime .. StartTime + MaxClock
MaxDatagrams == 2      \* datagrams received in one run

(***************************************************************************)
(* Byte strings as run-length sequences.                                   *)
(***************************************************************************)
Run(c, k) == [b |-> c, n |-> k]
NL(k) == Run("\n", k)

RECURSIVE ByteLen(_)
ByteLen(s) == IF s = <<>> THEN 0 ELSE Head(s).n + ByteLen(Tail(s))

\* the first k bytes of s
RECURSIVE TakeBytes(_, _)
TakeBytes(s, k) ==
    IF k <= 0 \/ s = <<>> THEN <<>>
    ELSE IF Head(s).n <= k THEN <<Head(s)>> \o TakeBytes(Tail(s), k - Head(s).n)
    ELSE <<Run(Head(s).b, k)>>

\* s without its first k bytes
RECURSIVE DropBytes(_, _)
DropBytes(s, k) ==
    IF s = <<>> THEN <<>>
    ELSE IF k <= 0 THEN s
    ELSE IF Head(s).n <= k THEN DropBytes(Tail(s), k - Head(s).n)
    ELSE <<Run(Head(s).b, Head(s).n - k)>> \o Tail(s)

\* canonical form: adjacent runs of one byte merged
RECURSIVE Normalize(_)
Normalize(s) ==
    IF Len(s) <= 1 THEN s
    ELSE LET r == Normalize(Tail(s))
         IN IF Head(s).b = Head(r).b
            THEN <<Run(Head(s).b, Head(s).n + Head(r).n)>> \o Tail(r)
            ELSE <<Head(s)>> \o r

\* buf[off .. off + len(data)] = data
WriteAt(buf, off, data) ==
    TakeBytes(buf, off) \o data \o DropBytes(buf, off + ByteLen(data))

(***************************************************************************)
(* Server::run: buf[..num_bytes].split(|&x| x == b'\n'), empty segments    *)
(* skipped.                                                                *)
(***************************************************************************)
RECURSIVE SplitFrom(_, _, _)
SplitFrom(d, cur, acc) ==
    IF d = <<>> THEN (IF cur = <<>> THEN acc ELSE Append(acc, cur))
    ELSE IF Head(d).b = "\n"
         THEN SplitFrom(Tail(d), <<>>, IF cur = <<>> THEN acc ELSE Append(acc, cur))
         ELSE SplitFrom(Tail(d), Append(cur, Head(d)), acc)

SplitLines_LastFirst(d) ==
    LET segs == SplitFrom(d, <<>>, <<>>)
    IN [i \in 1 .. Len(segs) |-> segs[Len(segs) + 1 - i]]

SplitLines(d) == SplitFrom(d, <<>>, <<>>)

BUFSIZE == 8192

\* datagrams the clients send
Datagrams ==
    { <<Run("a", 5)>>,
      <<Run("a", 4095), NL(1), Run("b", 4096)>>,
      <<NL(1), Run("b", 4096), NL(2), Run("a", 4095), Run("c", 1), NL(1)>>,
      <<Run("c", 8192), NL(1), Run("a", 5)>>,
      <<Run("b", 8193)>>,
      <<NL(2)>> }

Clock == StartTime .. (StartTime + MaxClock)

(***************************************************************************)
(* Upstream                                                                *)
(***************************************************************************)
Upstream_new ==
    [buffer |-> <<Run("0", BUFSIZE)>>, buf_used |-> 0, last_sent_at |-> 0, sent |-> <<>>]

Self == [buffer |-> buffer, buf_used |-> buf_used,
         last_sent_at |-> last_sent_at, sent |-> sent]

\* socket.send(bytes): one datagram, tagged with the code path that sent it
Send(u, bytes, path) == [u EXCEPT !.sent = Append(@, [data |-> bytes, via |-> path])]

Upstream_flush(u, t) ==
    LET u1 == IF u.buf_used > 0
              THEN [Send(u, TakeBytes(u.buffer, u.buf_used), "flush")
                        EXCEPT !.buf_used = 0]
              ELSE u
    IN [u1 EXCEPT !.last_sent_at = t]

Upstream_timed_flush_ForwardOnly(u, t) ==
    IF t >= u.last_sent_at /\ t - u.last_sent_at > 1 THEN Upstream_flush(u, t) ELSE u

Upstream_timed_flush_AtOneSecond(u, t) ==
    IF t < u.last_sent_at \/ t - u.last_sent_at >= 1 THEN Upstream_flush(u, t) ELSE u

\* duration_since fails when last_sent_at is later than now: map_or(true, ..)
Upstream_timed_flush(u, t) ==
    IF t < u.last_sent_at \/ t - u.last_sent_at > 1 THEN Upstream_flush(u, t) ELSE u

Upstream_submit_NoRoomForSeparator(u, metric, t) ==
    LET metric_len == ByteLen(metric)
        u1 == IF metric_len > BUFSIZE - u.buf_used THEN Upstream_flush(u, t) ELSE u
    IN IF metric_len > BUFSIZE
       THEN Send(u1, metric, "oversize")
       ELSE LET u2 == IF u1.buf_used > 0
                      THEN [u1 EXCEPT !.buffer = WriteAt(@, u1.buf_used, <<NL(1)>>),
                                      !.buf_used = @ + 1]
                      ELSE u1
            IN [u2 EXCEPT !.buffer = WriteAt(@, u2.buf_used, metric),
                          !.buf_used = @ + metric_len]

Upstream_submit_NoSeparator(u, metric, t) ==
    LET metric_len == ByteLen(metric)
        u1 == IF metric_len + 1 > BUFSIZE - u.buf_used THEN Upstream_flush(u, t) ELSE u
    IN IF metric_len > BUFSIZE
       THEN Send(u1, metric, "oversize")
       ELSE [u1 EXCEPT !.buffer = WriteAt(@, u1.buf_used, metric),
                       !.buf_used = @ + metric_len]

Upstream_submit_OversizeFirst(u, metric, t) ==
    LET metric_len == ByteLen(metric)
    IN IF metric_len > BUFSIZE
       THEN Send(u, metric, "oversize")
       ELSE Upstream_submit_NoSeparator(u, metric, t)

Upstream_submit(u, metric, t) ==
    LET metric_len == ByteLen(metric)
        u1 == IF metric_len + 1 > BUFSIZE - u.buf_used THEN Upstream_flush(u, t) ELSE u
    IN IF metric_len > BUFSIZE
       THEN Send(u1, metric, "oversize")
       ELSE LET u2 == IF u1.buf_used > 0
                      THEN [u1 EXCEPT !.buffer = WriteAt(@, u1.buf_used, <<NL(1)>>),
                                      !.buf_used = @ + 1]
                      ELSE u1
            IN [u2 EXCEPT !.buffer = WriteAt(@, u2.buf_used, metric),
                          !.buf_used = @ + metric_len]

Upstream_poll(u, t) == Upstream_timed_flush(u, t)

Upstream_drop_NoFlush(u, t) == u

Upstream_drop(u, t) == Upstream_flush(u, t)

SetUpstream(u) ==
    /\ buffer' = u.buffer
    /\ buf_used' = u.buf_used
    /\ last_sent_at' = u.last_sent_at
    /\ sent' = u.sent

(***************************************************************************)
(* Server::run over the Upstream alone (no middleware configured).         *)
(***************************************************************************)
\* the parts of the state a specification does not use stay as constructed
ServerIdle ==
    /\ stop = FALSE
    /\ pc = "recv"
    /\ lines = <<>>
    /\ received = <<>>
    /\ submitted = <<>>
    /\ head_call = "none"

UpstreamIdle ==
    /\ buffer = Upstream_new.buffer
    /\ buf_used = Upstream_new.buf_used
    /\ last_sent_at = Upstream_new.last_sent_at
    /\ sent = Upstream_new.sent

CardinalityIdle ==
    /\ quotas = <<>>
    /\ forwarded = {}
    /\ last_submit = [op |-> "none"]

AggregateIdle ==
    /\ config = [aggregate_counters |-> TRUE, aggregate_gauges |-> TRUE,
                 flush_interval |-> 1, flush_offset |-> 0,
                 max_map_size |-> [some |-> FALSE]]
    /\ metrics_map = <<>>
    /\ last_flushed_at = 0
    /\ next_out = <<>>
    /\ since_flush = <<>>
    /\ last_poll = [op |-> "none"]

TagCardinalityIdle ==
    /\ tag_quotas = <<>>
    /\ tag_out = <<>>
    /\ tag_last = [op |-> "none"]

MetricIdle ==
    /\ self_metric = [raw |-> <<>>, tags_pos |-> [some |-> FALSE]]
    /\ last_call = [op |-> "none"]

StageIdle ==
    /\ stage = [kind |-> "none"]
    /\ stage_out = <<>>
    /\ stage_last = [op |-> "none"]

PipelineIdle ==
    /\ middlewares = <<>>
    /\ client = <<>>
    /\ pipe_at = 0
    /\ pipe_trace = <<>>

SinkIdle ==
    /\ sink_next = <<>>
    /\ emit_pc = <<>>
    /\ emit_log = <<>>

UpInit ==
    /\ now = StartTime
    /\ ServerIdle
    /\ StageIdle
    /\ PipelineIdle
    /\ SinkIdle
    /\ UpstreamIdle
    /\ CardinalityIdle
    /\ AggregateIdle
    /\ TagCardinalityIdle
    /\ MetricIdle

\* the wall clock is read, not owned: SystemTime may step either way
ClockChange ==
    /\ pc \notin {"done", "panicked"}
    /\ \E t \in {now - 1, now + 1} \cap Clock : now' = t
    /\ UNCHANGED <<srvVars, upVars, clVars, aggVars,
                   callVars, tagVars, tyVars, stVars, pipeVars, sinkVars>>

\* signal_hook sets the flag on SIGHUP / SIGINT / SIGTERM
Signal ==
    /\ pc \notin {"done", "panicked"}
    /\ ~stop
    /\ stop' = TRUE
    /\ UNCHANGED <<now, pc, lines, received, upVars, clVars, aggVars,
                   callVars, tagVars, tyVars, stVars, pipeVars, sinkVars>>

\* recv_from returned Ok: the datagram is split into its non-empty segments
RecvDatagram ==
    /\ pc = "recv"
    /\ ~stop
    /\ Len(received) < MaxDatagrams
    /\ \E d \in Datagrams :
          /\ received' = Append(received, d)
          /\ lines' = SplitLines(d)
          /\ pc' = IF SplitLines(d) = <<>> THEN "recv" ELSE "poll"
    /\ UNCHANGED <<now, stop, upVars, clVars, aggVars,
                   callVars, tagVars, tyVars, stVars, pipeVars, sinkVars>>

\* recv_from timed out (WouldBlock / TimedOut): poll, continue
RecvTimeout ==
    /\ pc = "recv"
    /\ ~stop
    /\ SetUpstream(Upstream_poll(Self, now))
    /\ head_call' = "poll"
    /\ UNCHANGED <<now, srvVars, clVars, aggVars, submitted, tagVars, tyVars, stVars, pipeVars, sinkVars>>

LinePoll_Skipped ==
    /\ pc = "poll"
    /\ pc' = "submit"
    /\ UNCHANGED <<now, stop, lines, received, upVars, clVars, aggVars,
                   callVars, tagVars, tyVars, stVars, pipeVars, sinkVars>>

\* self.middleware.poll() for the segment at the head
LinePoll ==
    /\ pc = "poll"
    /\ SetUpstream(Upstream_poll(Self, now))
    /\ head_call' = "poll"
    /\ pc' = "submit"
    /\ UNCHANGED <<now, stop, lines, received, clVars, aggVars,
                   submitted, tagVars, tyVars, stVars, pipeVars, sinkVars>>

\* self.middleware.submit(metric) for the segment at the head
LineSubmit ==
    /\ pc = "submit"
    /\ SetUpstream(Upstream_submit(Self, Head(lines), now))
    /\ submitted' = Append(submitted, Head(lines))
    /\ head_call' = "submit"
    /\ lines' = Tail(lines)
    /\ pc' = IF Tail(lines) = <<>> THEN "recv" ELSE "poll"
    /\ UNCHANGED <<now, stop, received, clVars, aggVars, tagVars, tyVars, stVars, pipeVars, sinkVars>>

\* while !stop.load(..) ends the loop: run returns Ok(()) and the server, the
\* chain and the Upstream are dropped
ServerExit ==
    /\ pc = "recv"
    /\ stop
    /\ SetUpstream(Upstream_drop(Self, now))
    /\ pc' = "done"
    /\ UNCHANGED <<now, stop, lines, received, clVars, aggVars,
                   callVars, tagVars, tyVars, stVars, pipeVars, sinkVars>>

\* recv_from failed with another error kind: run returns Err, same drops
RecvError ==
    /\ pc = "recv"
    /\ ~stop
    /\ SetUpstream(Upstream_drop(Self, now))
    /\ pc' = "done"
    /\ UNCHANGED <<now, stop, lines, received, clVars, aggVars,
                   callVars, tagVars, tyVars, stVars, pipeVars, sinkVars>>

UpNext ==
    \/ ClockChange
    \/ Signal
    \/ RecvDatagram
    \/ RecvTimeout
    \/ LinePoll
    \/ LineSubmit
    \/ ServerExit
    \/ RecvError

SpecUpstream == UpInit /\ [][UpNext]_vars

(***************************************************************************)
(* Properties of the identity pipeline.                                    *)
(***************************************************************************)
\* every '\n'-delimited segment of a byte string, the empty ones included
RECURSIVE Segments(_, _)
Segments(d, cur) ==
    IF d = <<>> THEN <<Normalize(cur)>>
    ELSE IF Head(d).b = "\n"
         THEN <<Normalize(cur)>> \o [i \in 1 .. (Head(d).n - 1) |-> <<>>]
                  \o Segments(Tail(d), <<>>)
         ELSE Segments(Tail(d), Append(cur, Head(d)))

RECURSIVE Flatten(_)
Flatten(ss) == IF ss = <<>> THEN <<>> ELSE Head(ss) \o Flatten(Tail(ss))

IsNonEmpty(seg) == seg # <<>>

\* the non-empty lines of all datagrams received, in arrival order
InputLines ==
    Flatten([i \in 1 .. Len(received) |->
                SelectSeq(Segments(received[i], <<>>), IsNonEmpty)])

\* the payloads sent, in send order, each split on '\n'
SentLines ==
    Flatten([i \in 1 .. Len(sent) |-> Segments(sent[i].data, <<>>)])

IsPrefix(s, t) == Len(s) <= Len(t) /\ s = SubSeq(t, 1, Len(s))

\* C1: with no middleware, what was sent upstream is at every moment a prefix
\* of the non-empty input lines (same bytes, same order, nothing doubled), and
\* once every received line is handled and the buffer is flushed the two are
\* equal.
C1_IdentityPipeline ==
    /\ IsPrefix(SentLines, InputLines)
    /\ (lines = <<>> /\ pc \in {"recv", "done"} /\ buf_used = 0)
          => SentLines = InputLines

C1_Witness ==
    /\ pc = "done"
    /\ Len(InputLines) >= 3
    /\ SentLines = InputLines
    /\ \E i \in 1 .. Len(sent) : Len(Segments(sent[i].data, <<>>)) >= 2
    /\ \E i \in 1 .. Len(sent) : sent[i].via = "oversize"

\* a datagram was sent from the buffer (by flush) in this step
BufferSent ==
    \E i \in (Len(sent) + 1) .. Len(sent') : sent'[i].via = "flush"

UpstreamStep == LineSubmit \/ LinePoll \/ RecvTimeout \/ ServerExit \/ RecvError

\* C9 as stated: the buffer is sent in submit iff buf_used + 1 + L > BUFSIZE, in
\* poll iff more than 1 s has passed since last_sent_at, and on destruction;
\* never in another step, and never when buf_used = 0.
C9_AsStated ==
    [][ /\ LineSubmit =>
              (BufferSent <=> (buf_used > 0
                               /\ buf_used + 1 + ByteLen(Head(lines)) > BUFSIZE))
        /\ (LinePoll \/ RecvTimeout) =>
              (BufferSent <=> (buf_used > 0 /\ now - last_sent_at > 1))
        /\ (ServerExit \/ RecvError) => (BufferSent <=> buf_used > 0)
        /\ ~UpstreamStep => ~BufferSent ]_vars

\* C9 amended: as stated, but poll also flushes when the clock reads earlier
\* than last_sent_at; a buffer send is one datagram holding buffer[..buf_used].
C9_FlushTriggers ==
    [][ /\ LineSubmit =>
              (BufferSent <=> (buf_used > 0
                               /\ buf_used + 1 + ByteLen(Head(lines)) > BUFSIZE))
        /\ (LinePoll \/ RecvTimeout) =>
              (BufferSent <=> (buf_used > 0
                               /\ (now - last_sent_at > 1 \/ now < last_sent_at)))
        /\ (ServerExit \/ RecvError) => (BufferSent <=> buf_used > 0)
        /\ ~UpstreamStep => ~BufferSent
        /\ BufferSent =>
              /\ sent'[Len(sent) + 1] =
                     [data |-> TakeBytes(buffer, buf_used), via |-> "flush"]
              /\ \A i \in (Len(sent) + 2) .. Len(sent') : sent'[i].via # "flush" ]_vars

C9_Witness ==
    /\ pc = "done"
    /\ Len(sent) >= 3
    /\ \A i \in 1 .. Len(sent) : sent[i].via = "flush"

\* C10: when the server loop ends and the Upstream is dropped, a non-empty
\* buffer goes out as one datagram, and afterwards every line the Upstream
\* accepted has been sent.
C10_FlushOnDrop ==
    [][ pc' = "done" =>
          /\ buf_used' = 0
          /\ buf_used > 0 =>
                sent' = Append(sent, [data |-> TakeBytes(buffer, buf_used),
                                      via |-> "flush"])
          /\ buf_used = 0 => sent' = sent
          /\ SentLines' = InputLines' ]_vars

C10_Witness ==
    /\ pc = "done"
    /\ Len(sent) = 1
    /\ Len(Segments(sent[1].data, <<>>)) = 2
    /\ received = << <<Run("a", 4095), NL(1), Run("b", 4096)>> >>

\* C11: a metric longer than BUFSIZE is not written to the buffer: the pending
\* buffer is sent first, then the metric alone as one datagram, and buf_used
\* is 0 after the submit.
C11_Oversize ==
    [][ (LineSubmit /\ ByteLen(Head(lines)) > BUFSIZE) =>
          LET own == [data |-> Head(lines), via |-> "oversize"]
              pending == [data |-> TakeBytes(buffer, buf_used), via |-> "flush"]
          IN /\ buffer' = buffer
             /\ buf_used' = 0
             /\ sent' = IF buf_used > 0 THEN sent \o <<pending, own>>
                                        ELSE Append(sent, own)
             /\ IsPrefix(SentLines', InputLines') ]_vars

\* a metric of 5 bytes was buffered, then one of 8193 bytes arrived
C11_Witness ==
    /\ Len(sent) = 2
    /\ sent[1] = [data |-> <<Run("a", 5)>>, via |-> "flush"]
    /\ sent[2] = [data |-> <<Run("b", 8193)>>, via |-> "oversize"]
    /\ buf_used = 0
    /\ pc = "recv"

\* C16: the head gets a submit only right after a poll made for that line
\* (no call on the head between the two, the line still at the head of the
\* datagram's segments); a receive timeout polls once and submits nothing.
C16_PollDiscipline ==
    [][ /\ submitted' # submitted =>
              /\ head_call = "poll"
              /\ head_call' = "submit"
              /\ submitted' = Append(submitted, Head(lines))
        /\ (pc' = "submit" /\ pc # "submit") =>
              /\ pc = "poll"
              /\ head_call' = "poll"
              /\ UNCHANGED <<lines, submitted>>
        /\ (pc = "submit" /\ pc' = "submit") =>
              UNCHANGED <<lines, submitted, head_call>>
        /\ (pc = "submit" /\ pc' \in {"recv", "poll"}) =>
              submitted' = Append(submitted, Head(lines))
        /\ RecvTimeout =>
              /\ head_call' = "poll"
              /\ UNCHANGED <<lines, submitted, pc>>
              /\ Self' = Upstream_poll(Self, now) ]_vars

\* the second line of a datagram has been polled for after the submit of the
\* first
C16_Witness ==
    /\ Len(received) = 1
    /\ Len(submitted) = 1
    /\ head_call = "poll"
    /\ pc = "submit"
    /\ Len(lines) = 1

\* C17: the metrics submitted so far, followed by the segments of the current
\* datagram still to handle, are exactly the non-empty '\n'-delimited
\* segments of the datagrams received, in receive order and order of
\* appearance, byte for byte.
C17_Framing == submitted \o lines = InputLines

\* a datagram with leading, doubled and trailing newlines gave two metrics
C17_Witness ==
    /\ received = << <<NL(1), Run("b", 4096), NL(2), Run("a", 4095),
                       Run("c", 1), NL(1)>> >>
    /\ submitted = << <<Run("b", 4096)>>, <<Run("a", 4095), Run("c", 1)>> >>
    /\ lines = <<>>

(***************************************************************************)
(* Server::run over the Upstream when socket.send may fail. A send that    *)
(* returns Err, or Ok(n) with n below the length, ends in expect / panic!. *)
(* The thread then unwinds and drops the Upstream, whose Drop flushes once *)
(* more, or the build aborts on panic; both outcomes are kept.             *)
(***************************************************************************)
\* what reached the wire from a send that did not succeed
FailedSend(u, bytes, kind) ==
    IF kind = "short"
    THEN Send(u, TakeBytes(bytes, ByteLen(bytes) - 1), "short")
    ELSE u

\* the Upstream after the panic: left as it is (abort, or the flush of the
\* unwinding Drop fails as well), or flushed by the unwinding Drop
AfterPanic(u, t) == {u, Upstream_drop(u, t)}

\* Upstream::flush up to its send, which fails
FlushPanics(u, kind, t) ==
    AfterPanic(FailedSend(u, TakeBytes(u.buffer, u.buf_used), kind), t)

SendKinds == {"error", "short"}

\* poll on a receive timeout or before a submit: the send of timed_flush fails
PollPanics ==
    /\ \/ pc = "recv" /\ ~stop
       \/ pc = "poll"
    /\ Len(Upstream_poll(Self, now).sent) > Len(sent)
    /\ \E kind \in SendKinds : \E u \in FlushPanics(Self, kind, now) : SetUpstream(u)
    /\ head_call' = "poll"
    /\ pc' = "panicked"
    /\ UNCHANGED <<now, stop, lines, received, clVars, aggVars,
                   submitted, tagVars, tyVars, stVars, pipeVars, sinkVars>>

\* submit: the send of its flush fails, or the send of an oversized metric
SubmitPanics ==
    /\ pc = "submit"
    /\ LET metric == Head(lines)
           metric_len == ByteLen(metric)
           flushes == metric_len + 1 > BUFSIZE - buf_used /\ buf_used > 0
       IN \E kind \in SendKinds :
             \/ /\ flushes
                /\ \E u \in FlushPanics(Self, kind, now) : SetUpstream(u)
             \/ /\ metric_len > BUFSIZE
                /\ \E u \in AfterPanic(FailedSend(Upstream_flush(Self, now),
                                                   metric, kind), now) :
                       SetUpstream(u)
    /\ submitted' = Append(submitted, Head(lines))
    /\ head_call' = "submit"
    /\ pc' = "panicked"
    /\ UNCHANGED <<now, stop, lines, received, clVars, aggVars, tagVars, tyVars, stVars, pipeVars, sinkVars>>

\* the flush of Drop at the end of run fails; nothing is left to unwind
DropPanics ==
    /\ pc = "recv"
    /\ buf_used > 0
    /\ \E kind \in SendKinds :
          SetUpstream(FailedSend(Self, TakeBytes(buffer, buf_used), kind))
    /\ pc' = "panicked"
    /\ UNCHANGED <<now, stop, lines, received, clVars, aggVars,
                   callVars, tagVars, tyVars, stVars, pipeVars, sinkVars>>

FailNext ==
    \/ UpNext
    \/ PollPanics
    \/ SubmitPanics
    \/ DropPanics

SpecSendFailure == UpInit /\ [][FailNext]_vars

\* C12: a send that fails or writes short does not end the server loop: the
\* process never stops in a panic.
C12_SendFailureSoft == pc # "panicked"

(***************************************************************************)
(* CardinalityLimit                                                        *)
(***************************************************************************)
MaxHashes == 3     \* distinct identity hashes (CRC-32 of name and tags) submitted

MetricHashes == 1 .. MaxHashes

\* the `limits` lists of the configurations checked
LimitConfigs ==
    { << [window |-> 2, limit |-> 1] >>,
      << [window |-> 3, limit |-> 2] >>,
      << [window |-> 301, limit |-> 1] >>,
      << [window |-> 3600, limit |-> 2] >>,
      << [window |-> 3600, limit |-> 2], [window |-> 2, limit |-> 1] >> }

Quota_from(cfg) ==
    [window |-> cfg.window,
     limit |-> cfg.limit,
     granularity |-> IF cfg.window <= 300 THEN 1
                     ELSE IF cfg.window <= 1800 THEN 60
                     ELSE 3600,
     usage |-> <<>>]

CardinalityLimit_new(limits) == [i \in 1 .. Len(limits) |-> Quota_from(limits[i])]

\* first_entry() is the smallest key: every key below window_start goes
Quota_remove_old_keys(q, t) ==
    LET window_start == t - q.window
    IN [q EXCEPT !.usage = [k \in {g \in DOMAIN q.usage : g >= window_start}
                                |-> q.usage[k]]]

Quota_does_metric_fit(q, t, hash) ==
    LET window_start == t - q.window
    IN IF window_start \in DOMAIN q.usage
       THEN Cardinality(q.usage[window_start]) < q.limit
                \/ hash \in q.usage[window_start]
       ELSE TRUE

GranulesOf_UpToNow(q, t) ==
    {(t - q.window) + k * q.granularity : k \in 0 .. (q.window \div q.granularity)}

\* the keys written: now - window, stepped by granularity, below now
GranulesOf(q, t) ==
    {(t - q.window) + k * q.granularity : k \in 0 .. ((q.window - 1) \div q.granularity)}

Quota_insert_metric(q, t, hash) ==
    [q EXCEPT !.usage =
        [k \in DOMAIN q.usage \cup GranulesOf(q, t) |->
            IF k \in GranulesOf(q, t)
            THEN (IF k \in DOMAIN q.usage THEN q.usage[k] ELSE {}) \cup {hash}
            ELSE q.usage[k]]]

\* the first loop of submit, from quota i on: remove_old_keys, then the first
\* quota that does not fit ends the submit
RECURSIVE CheckQuotas(_, _, _, _)
CheckQuotas(qs, i, t, hash) ==
    IF i > Len(qs) THEN [quotas |-> qs, fits |-> TRUE, by |-> 0]
    ELSE LET q == Quota_remove_old_keys(qs[i], t)
             qs1 == [qs EXCEPT ![i] = q]
         IN IF ~Quota_does_metric_fit(q, t, hash)
            THEN [quotas |-> qs1, fits |-> FALSE, by |-> i]
            ELSE CheckQuotas(qs1, i + 1, t, hash)

CardinalityLimit_submit_InsertFirst(qs, hash, t, downstream_ok) ==
    LET c == CheckQuotas(qs, 1, t, hash)
        inserted == [i \in 1 .. Len(qs) |-> Quota_insert_metric(c.quotas[i], t, hash)]
    IN IF ~c.fits
       THEN [quotas |-> c.quotas, outcome |-> "dropped", by |-> c.by]
       ELSE IF ~downstream_ok
       THEN [quotas |-> inserted, outcome |-> "overloaded", by |-> 0]
       ELSE [quotas |-> inserted, outcome |-> "forwarded", by |-> 0]

\* downstream_ok: self.next.submit(metric) returned Ok, not Overloaded
CardinalityLimit_submit(qs, hash, t, downstream_ok) ==
    LET c == CheckQuotas(qs, 1, t, hash)
    IN IF ~c.fits
       THEN [quotas |-> c.quotas, outcome |-> "dropped", by |-> c.by]
       ELSE IF ~downstream_ok
       THEN [quotas |-> c.quotas, outcome |-> "overloaded", by |-> 0]
       ELSE [quotas |-> [i \in 1 .. Len(qs) |-> Quota_insert_metric(c.quotas[i], t, hash)],
             outcome |-> "forwarded", by |-> 0]

CLInit ==
    /\ now = StartTime
    /\ ServerIdle
    /\ StageIdle
    /\ PipelineIdle
    /\ SinkIdle
    /\ UpstreamIdle
    /\ AggregateIdle
    /\ TagCardinalityIdle
    /\ MetricIdle
    /\ \E limits \in LimitConfigs : quotas = CardinalityLimit_new(limits)
    /\ forwarded = {}
    /\ last_submit = [op |-> "none"]

\* one second passes
CLTick ==
    /\ now < StartTime + MaxClock
    /\ now' = now + 1
    /\ UNCHANGED <<srvVars, upVars, clVars, aggVars,
                   callVars, tagVars, tyVars, stVars, pipeVars, sinkVars>>

CLSubmit ==
    \E hash \in MetricHashes, downstream_ok \in BOOLEAN :
        LET r == CardinalityLimit_submit(quotas, hash, now, downstream_ok)
        IN /\ quotas' = r.quotas
           /\ forwarded' = IF r.outcome = "forwarded"
                           THEN forwarded \cup {<<now, hash>>}
                           ELSE forwarded
           /\ last_submit' = [op |-> "submit", hash |-> hash, at |-> now,
                              outcome |-> r.outcome, by |-> r.by]
           /\ UNCHANGED <<now, srvVars, upVars, aggVars,
                   callVars, tagVars, tyVars, stVars, pipeVars, sinkVars>>

CLNext ==
    \/ CLTick
    \/ CLSubmit

SpecCardinality == CLInit /\ [][CLNext]_vars

\* the distinct hashes forwarded in the `window` seconds that end now
ForwardedInWindow(window) ==
    {h \in MetricHashes : \E t \in (now - window + 1) .. now : <<t, h>> \in forwarded}

\* C2: for every quota, the distinct hashes forwarded within the last `window`
\* seconds never number more than `limit`, whatever second they arrived in.
C2_UpperBound ==
    \A i \in 1 .. Len(quotas) :
        Cardinality(ForwardedInWindow(quotas[i].window)) <= quotas[i].limit

\* C3: a metric is never dropped by a quota while its hash was forwarded less
\* than that quota's `window` seconds ago.
C3_Readmission ==
    (last_submit.op = "submit" /\ last_submit.outcome = "dropped") =>
        last_submit.hash \notin ForwardedInWindow(quotas[last_submit.by].window)

(***************************************************************************)
(* Metric accessors used by AggregateMetrics. A metric line is here a      *)
(* sequence of bytes, one string per byte; "xFF" is a byte that is not     *)
(* valid UTF-8.                                                            *)
(***************************************************************************)
None == [some |-> FALSE]
Some(i, j) == [some |-> TRUE, start |-> i, end |-> j]

\* 0-based offset of the first byte c at or after offset `from`, or Len(raw)
RECURSIVE Position(_, _, _)
Position(raw, c, from) ==
    IF from >= Len(raw) THEN Len(raw)
    ELSE IF raw[from + 1] = c THEN from
    ELSE Position(raw, c, from + 1)

Slice(raw, i, j) == SubSeq(raw, i + 1, j)

\* the bytes between the first ':' and the first '|', as a half-open range
Metric_value(raw) ==
    LET colon == Position(raw, ":", 0)
    IN IF colon = Len(raw) THEN None
       ELSE Some(colon + 1, Position(raw, "|", colon + 1))

\* the bytes between the first '|' and the next '|' or the end
Metric_ty(raw) ==
    LET bar == Position(raw, "|", 0)
    IN IF bar = Len(raw) THEN None
       ELSE Some(bar + 1, Position(raw, "|", bar + 1))

DigitChars == <<"0", "1", "2", "3", "4", "5", "6", "7", "8", "9">>

IsDigit(c) == \E d \in 1 .. 10 : DigitChars[d] = c

DigitValue(c) == (CHOOSE d \in 1 .. 10 : DigitChars[d] = c) - 1

from_utf8(bytes) == \A i \in 1 .. Len(bytes) : bytes[i] # "xFF"

\* str::parse::<f64> on the strings submitted here: a non-empty string of
\* decimal digits is its number (leading zeros allowed), anything else fails
RECURSIVE DigitsValue(_, _)
DigitsValue(str, acc) ==
    IF str = <<>> THEN acc
    ELSE DigitsValue(Tail(str), acc * 10 + DigitValue(Head(str)))

parse_f64(str) ==
    IF str # <<>> /\ \A i \in 1 .. Len(str) : IsDigit(str[i])
    THEN [ok |-> TRUE, v |-> DigitsValue(str, 0)]
    ELSE [ok |-> FALSE]

\* f64::to_string of a whole number >= 0: its decimal digits, no ".0"
RECURSIVE to_string(_)
to_string(x) ==
    IF x < 10 THEN <<DigitChars[x + 1]>>
    ELSE to_string(x \div 10) \o <<DigitChars[(x % 10) + 1]>>

(***************************************************************************)
(* AggregateMetrics                                                        *)
(***************************************************************************)
Counter(x) == [kind |-> "Counter", v |-> x]
Gauge(x) == [kind |-> "Gauge", v |-> x]

BucketValue_merge_Overwrite(a, other) == other

BucketValue_merge_KeepFirst(a, other) ==
    IF a.kind = "Gauge" /\ other.kind = "Gauge" THEN Gauge(a.v)
    ELSE IF a.kind = "Counter" /\ other.kind = "Counter" THEN Counter(a.v + other.v)
    ELSE [kind |-> "panic", v |-> 0]

BucketValue_merge(a, other) ==
    IF a.kind = "Gauge" /\ other.kind = "Gauge" THEN Gauge(other.v)
    ELSE IF a.kind = "Counter" /\ other.kind = "Counter" THEN Counter(a.v + other.v)
    ELSE [kind |-> "panic", v |-> 0]

Err == [ok |-> FALSE]

AggregateMetrics_insert_metric_IgnoreConfig(map, cfg, raw) ==
    LET val == Metric_value(raw)
        ty == Metric_ty(raw)
        raw_value == Slice(raw, val.start, val.end)
        parsed == parse_f64(raw_value)
        key == [metric_bytes |-> Slice(raw, 0, val.start) \o Slice(raw, val.end, Len(raw)),
                insert_value_at |-> val.start]
        value == IF Slice(raw, ty.start, ty.end) = <<"c">>
                 THEN Counter(parsed.v) ELSE Gauge(parsed.v)
    IN IF ~val.some \/ ~from_utf8(raw_value) THEN Err
       ELSE IF ~ty.some THEN Err
       ELSE IF Slice(raw, ty.start, ty.end) \notin {<<"c">>, <<"g">>} THEN Err
       ELSE IF ~parsed.ok THEN Err
       ELSE [ok |-> TRUE,
             map |-> IF key \in DOMAIN map
                     THEN [map EXCEPT ![key] = BucketValue_merge(@, value)]
                     ELSE [k \in DOMAIN map \cup {key} |->
                              IF k = key THEN value ELSE map[k]]]

AggregateMetrics_insert_metric_KeyToValue(map, cfg, raw) ==
    LET val == Metric_value(raw)
        ty == Metric_ty(raw)
        raw_value == Slice(raw, val.start, val.end)
        parsed == parse_f64(raw_value)
        is_c == Slice(raw, ty.start, ty.end) = <<"c">> /\ cfg.aggregate_counters
        is_g == Slice(raw, ty.start, ty.end) = <<"g">> /\ cfg.aggregate_gauges
        value_start == val.start
        key == [metric_bytes |-> Slice(raw, 0, value_start),
                insert_value_at |-> value_start]
        value == IF is_c THEN Counter(parsed.v) ELSE Gauge(parsed.v)
    IN IF ~val.some \/ ~from_utf8(raw_value) THEN Err
       ELSE IF ~ty.some THEN Err
       ELSE IF ~(is_c \/ is_g) THEN Err
       ELSE IF ~parsed.ok THEN Err
       ELSE [ok |-> TRUE,
             map |-> IF key \in DOMAIN map
                     THEN [map EXCEPT ![key] = BucketValue_merge(@, value)]
                     ELSE [k \in DOMAIN map \cup {key} |->
                              IF k = key THEN value ELSE map[k]]]

AggregateMetrics_insert_metric(map, cfg, raw) ==
    LET val == Metric_value(raw)
        ty == Metric_ty(raw)
        raw_value == Slice(raw, val.start, val.end)
        parsed == parse_f64(raw_value)
        is_c == Slice(raw, ty.start, ty.end) = <<"c">> /\ cfg.aggregate_counters
        is_g == Slice(raw, ty.start, ty.end) = <<"g">> /\ cfg.aggregate_gauges
        value_start == val.start
        value_end == value_start + Len(raw_value)
        key == [metric_bytes |-> Slice(raw, 0, value_start) \o Slice(raw, value_end, Len(raw)),
                insert_value_at |-> value_start]
        value == IF is_c THEN Counter(parsed.v) ELSE Gauge(parsed.v)
    IN IF ~val.some \/ ~from_utf8(raw_value) THEN Err
       ELSE IF ~ty.some THEN Err
       ELSE IF ~(is_c \/ is_g) THEN Err
       ELSE IF ~parsed.ok THEN Err
       ELSE [ok |-> TRUE,
             map |-> IF key \in DOMAIN map
                     THEN [map EXCEPT ![key] = BucketValue_merge(@, value)]
                     ELSE [k \in DOMAIN map \cup {key} |->
                              IF k = key THEN value ELSE map[k]]]

\* one drained entry, rebuilt as a metric
BucketMetric(key, value) ==
    Slice(key.metric_bytes, 0, key.insert_value_at)
        \o to_string(value.v)
        \o Slice(key.metric_bytes, key.insert_value_at, Len(key.metric_bytes))

\* the orders in which HashMap::drain may yield the keys
DrainOrders(map) ==
    {o \in [1 .. Cardinality(DOMAIN map) -> DOMAIN map] :
        \A i, j \in DOMAIN o : o[i] = o[j] => i = j}

\* drains the map; `order` is the order drain yields; the result is what is
\* submitted to the next stage
AggregateMetrics_flush_metrics(map, order) ==
    [i \in 1 .. Len(order) |-> BucketMetric(order[i], map[order[i]])]

rounded_bucket(cfg, t) == (t \div cfg.flush_interval) * cfg.flush_interval + cfg.flush_offset

ShouldFlush_Late(cfg, last, t) == last + cfg.flush_interval < rounded_bucket(cfg, t)

ShouldFlush(cfg, last, t) == last + cfg.flush_interval <= rounded_bucket(cfg, t)

\* the configurations checked
AggregateConfigs ==
    { [aggregate_counters |-> TRUE, aggregate_gauges |-> TRUE,
       flush_interval |-> 10, flush_offset |-> 0,
       max_map_size |-> [some |-> FALSE]],
      [aggregate_counters |-> TRUE, aggregate_gauges |-> FALSE,
       flush_interval |-> 6, flush_offset |-> 1,
       max_map_size |-> [some |-> TRUE, value |-> 1]],
      [aggregate_counters |-> FALSE, aggregate_gauges |-> TRUE,
       flush_interval |-> 5, flush_offset |-> 0,
       max_map_size |-> [some |-> FALSE]] }

\* the metric lines the clients send
AggMetrics ==
    { <<"a", ":", "1", "|", "c">>,
      <<"a", ":", "0", "2", "|", "c">>,
      <<"a", ":", "1", "|", "c", "|", "#", "t">>,
      <<"a", ":", "3", "|", "g">>,
      <<"a", ":", "2", "|", "g">>,
      <<"a", ":", "x", "|", "c">>,
      <<"a", ":", "xFF", "|", "g">>,
      <<"a", ":", "1", "|", "m", "s">> }

MaxLines == 2         \* no datagram is read once next_out and since_flush hold MaxLines metrics

MaxAggClock == 11     \* the clock (CURRENT_TIME of the tests) stays within 0 .. MaxAggClock

AggClock == 0 .. MaxAggClock

AggInit ==
    /\ now = 0
    /\ ServerIdle
    /\ StageIdle
    /\ PipelineIdle
    /\ SinkIdle
    /\ UpstreamIdle
    /\ CardinalityIdle
    /\ TagCardinalityIdle
    /\ MetricIdle
    /\ config \in AggregateConfigs
    /\ metrics_map = <<>>
    /\ last_flushed_at = 0
    /\ next_out = <<>>
    /\ since_flush = <<>>
    /\ last_poll = [op |-> "none"]

\* the clock read by poll moves a second, either way
AggClockChange ==
    /\ pc \notin {"done", "panicked"}
    /\ \E t \in {now - 1, now + 1} \cap AggClock : now' = t
    /\ UNCHANGED <<srvVars, upVars, clVars, aggVars,
                   callVars, tagVars, tyVars, stVars, pipeVars, sinkVars>>

AggSignal ==
    /\ pc \notin {"done", "panicked"}
    /\ ~stop
    /\ stop' = TRUE
    /\ UNCHANGED <<now, pc, lines, received, upVars, clVars, aggVars,
                   callVars, tagVars, tyVars, stVars, pipeVars, sinkVars>>

AggregateMetrics_poll_KeepMap(t) ==
    IF ShouldFlush(config, last_flushed_at, t)
    THEN \E order \in DrainOrders(metrics_map) :
            /\ next_out' = next_out \o AggregateMetrics_flush_metrics(metrics_map, order)
            /\ metrics_map' = metrics_map
            /\ since_flush' = <<>>
            /\ last_flushed_at' = rounded_bucket(config, t)
            /\ last_poll' = [op |-> "poll", bucket |-> rounded_bucket(config, t),
                             flushed |-> TRUE, drained |-> Len(since_flush)]
    ELSE /\ last_poll' = [op |-> "poll", bucket |-> rounded_bucket(config, t),
                          flushed |-> FALSE, drained |-> 0]
         /\ UNCHANGED <<metrics_map, since_flush, last_flushed_at, next_out>>

\* AggregateMetrics::poll, reading the clock as t
AggregateMetrics_poll(t) ==
    IF ShouldFlush(config, last_flushed_at, t)
    THEN \E order \in DrainOrders(metrics_map) :
            /\ next_out' = next_out \o AggregateMetrics_flush_metrics(metrics_map, order)
            /\ metrics_map' = <<>>
            /\ since_flush' = <<>>
            /\ last_flushed_at' = rounded_bucket(config, t)
            /\ last_poll' = [op |-> "poll", bucket |-> rounded_bucket(config, t),
                             flushed |-> TRUE, drained |-> Len(since_flush)]
    ELSE /\ last_poll' = [op |-> "poll", bucket |-> rounded_bucket(config, t),
                          flushed |-> FALSE, drained |-> 0]
         /\ UNCHANGED <<metrics_map, since_flush, last_flushed_at, next_out>>

\* AggregateMetrics::submit
AggregateMetrics_submit(metric) ==
    LET r == AggregateMetrics_insert_metric(metrics_map, config, metric)
    IN IF r.ok
       THEN /\ metrics_map' = r.map
            /\ since_flush' = Append(since_flush, metric)
            /\ UNCHANGED next_out
       ELSE /\ next_out' = Append(next_out, metric)
            /\ since_flush' = Append(since_flush, metric)
            /\ UNCHANGED metrics_map

\* recv_from returned a datagram holding one metric line
AggRecvDatagram ==
    /\ pc = "recv"
    /\ ~stop
    /\ Len(next_out) + Len(since_flush) < MaxLines
    /\ \E m \in AggMetrics : lines' = <<m>>
    /\ pc' = "poll"
    /\ UNCHANGED <<now, stop, received, upVars, clVars, aggVars,
                   callVars, tagVars, tyVars, stVars, pipeVars, sinkVars>>

AggRecvTimeout ==
    /\ pc = "recv"
    /\ ~stop
    /\ AggregateMetrics_poll(now)
    /\ UNCHANGED <<now, srvVars, config, upVars, clVars,
                   callVars, tagVars, tyVars, stVars, pipeVars, sinkVars>>

AggLinePoll ==
    /\ pc = "poll"
    /\ AggregateMetrics_poll(now)
    /\ pc' = "submit"
    /\ UNCHANGED <<now, stop, lines, received, config, upVars, clVars,
                   callVars, tagVars, tyVars, stVars, pipeVars, sinkVars>>

AggLineSubmit ==
    /\ pc = "submit"
    /\ AggregateMetrics_submit(Head(lines))
    /\ lines' = Tail(lines)
    /\ pc' = IF Tail(lines) = <<>> THEN "recv" ELSE "poll"
    /\ UNCHANGED <<now, stop, received, config, last_flushed_at, last_poll,
                   upVars, clVars,
                   callVars, tagVars, tyVars, stVars, pipeVars, sinkVars>>

\* while !stop.load(..) ends the loop: run returns Ok(()) and the chain is
\* dropped; nothing calls join, and AggregateMetrics has neither a join of its
\* own nor a Drop: the map is freed as it is
AggServerExit ==
    /\ pc = "recv"
    /\ stop
    /\ pc' = "done"
    /\ UNCHANGED <<now, stop, lines, received, upVars, clVars, aggVars,
                   callVars, tagVars, tyVars, stVars, pipeVars, sinkVars>>

AggNext ==
    \/ AggClockChange
    \/ AggSignal
    \/ AggRecvDatagram
    \/ AggRecvTimeout
    \/ AggLinePoll
    \/ AggLineSubmit
    \/ AggServerExit

SpecAggregate == AggInit /\ [][AggNext]_vars

(***************************************************************************)
(* Properties of AggregateMetrics. The claims read a line on their own:    *)
(* name, ':', value, '|', type, then the rest.                             *)
(***************************************************************************)
ColonAt(m) == Position(m, ":", 0)
BarAt(m) == Position(m, "|", 0)
ValueBytes(m) == Slice(m, ColonAt(m) + 1, BarAt(m))
TypeBytes(m) == Slice(m, BarAt(m) + 1, Position(m, "|", BarAt(m) + 1))
NonValueBytes(m) == [head |-> Slice(m, 0, ColonAt(m) + 1),
                     tail |-> Slice(m, BarAt(m), Len(m))]

IsNumeric(m) ==
    /\ ColonAt(m) < BarAt(m)
    /\ BarAt(m) < Len(m)
    /\ ValueBytes(m) # <<>>
    /\ \A i \in 1 .. Len(ValueBytes(m)) : IsDigit(ValueBytes(m)[i])

\* a counter the stage is configured to aggregate
IsCounter(m) == IsNumeric(m) /\ TypeBytes(m) = <<"c">> /\ config.aggregate_counters

\* a gauge the stage is configured to aggregate
IsGauge(m) == IsNumeric(m) /\ TypeBytes(m) = <<"g">> /\ config.aggregate_gauges

NumberOf(m) == DigitsValue(ValueBytes(m), 0)

WithValue(nv, x) == nv.head \o to_string(x) \o nv.tail

\* the sum of the values of the counters of ms that share the non-value bytes nv
RECURSIVE CounterSum(_, _)
CounterSum(ms, nv) ==
    IF ms = <<>> THEN 0
    ELSE (IF IsCounter(Head(ms)) /\ NonValueBytes(Head(ms)) = nv
          THEN NumberOf(Head(ms)) ELSE 0) + CounterSum(Tail(ms), nv)

\* the value of the last gauge of ms that has the non-value bytes nv
RECURSIVE LastGauge(_, _)
LastGauge(ms, nv) ==
    IF IsGauge(ms[Len(ms)]) /\ NonValueBytes(ms[Len(ms)]) = nv
    THEN NumberOf(ms[Len(ms)])
    ELSE LastGauge(SubSeq(ms, 1, Len(ms) - 1), nv)

AggPollStep == AggLinePoll \/ AggRecvTimeout

\* what this step submitted to the next stage
Emitted == SubSeq(next_out', Len(next_out) + 1, Len(next_out'))

EmittedFor(nv) == {i \in 1 .. Len(Emitted) : NonValueBytes(Emitted[i]) = nv}

\* C4: a flush emits, for the counters submitted since the last flush that
\* share their non-value bytes, exactly one metric: those bytes with the sum
\* of the parsed values at the value position.
C4_CounterSum ==
    [][ (AggPollStep /\ last_poll'.flushed) =>
          \A k \in 1 .. Len(since_flush) :
              IsCounter(since_flush[k]) =>
                  LET nv == NonValueBytes(since_flush[k])
                  IN /\ Cardinality(EmittedFor(nv)) = 1
                     /\ \A i \in EmittedFor(nv) :
                            Emitted[i] = WithValue(nv, CounterSum(since_flush, nv)) ]_vars

C4_Witness ==
    /\ last_poll.op = "poll" /\ last_poll.flushed /\ last_poll.drained = 2
    /\ since_flush = <<>>
    /\ next_out = << <<"a", ":", "3", "|", "c">> >>

\* C5: a flush emits, for the gauges submitted since the last flush that share
\* their non-value bytes, exactly one metric, carrying the value of the last
\* of them.
C5_GaugeLastWrite ==
    [][ (AggPollStep /\ last_poll'.flushed) =>
          \A k \in 1 .. Len(since_flush) :
              IsGauge(since_flush[k]) =>
                  LET nv == NonValueBytes(since_flush[k])
                  IN /\ Cardinality(EmittedFor(nv)) = 1
                     /\ \A i \in EmittedFor(nv) :
                            Emitted[i] = WithValue(nv, LastGauge(since_flush, nv)) ]_vars

C5_Witness ==
    /\ last_poll.op = "poll" /\ last_poll.flushed /\ last_poll.drained = 2
    /\ since_flush = <<>>
    /\ next_out = << <<"a", ":", "2", "|", "g">> >>

\* C6: poll flushes iff last_flushed_at + flush_interval <= the bucket edge
\* floor(now / flush_interval) * flush_interval + flush_offset, and then
\* last_flushed_at is that edge; a poll that does not flush, a second poll in
\* the bucket of the poll before it, and the submit of an absorbed metric pass
\* nothing on.
C6_FlushTiming ==
    [][ LET edge == (now \div config.flush_interval) * config.flush_interval
                        + config.flush_offset
            due == last_flushed_at + config.flush_interval <= edge
        IN /\ AggPollStep =>
                 /\ last_poll'.flushed = due
                 /\ due => /\ last_flushed_at' = edge
                           /\ metrics_map' = <<>>
                           /\ Len(Emitted) = Cardinality(DOMAIN metrics_map)
                 /\ ~due => UNCHANGED <<last_flushed_at, metrics_map, next_out>>
                 /\ (last_poll.op = "poll" /\ last_poll.bucket = edge) =>
                        UNCHANGED <<metrics_map, next_out>>
           /\ (AggLineSubmit /\ metrics_map' # metrics_map) => next_out' = next_out ]_vars

\* the scenario of the tests: flush_interval 10, the same counter at t = 0 and
\* t = 1, the aggregate out at the poll of t = 11
C6_Witness ==
    /\ config.flush_interval = 10
    /\ now = 11
    /\ last_poll.op = "poll" /\ last_poll.flushed /\ last_poll.drained = 2
    /\ last_flushed_at = 10
    /\ next_out = << <<"a", ":", "2", "|", "c", "|", "#", "t">> >>

\* C7: a submitted metric that is no counter or gauge the stage aggregates
\* (value not UTF-8 or not a number, another type, a type switched off) is
\* passed on at once, once and unchanged, and the map stays as it is.
C7_PassThrough ==
    [][ (AggLineSubmit /\ ~IsCounter(Head(lines)) /\ ~IsGauge(Head(lines))) =>
            /\ next_out' = Append(next_out, Head(lines))
            /\ metrics_map' = metrics_map ]_vars

C7_Witness ==
    /\ ~config.aggregate_counters
    /\ pc = "recv"
    /\ DOMAIN metrics_map # {}
    /\ since_flush = << <<"a", ":", "3", "|", "g">>, <<"a", ":", "1", "|", "c">> >>
    /\ next_out = << <<"a", ":", "1", "|", "c">> >>

\* C8: when the server loop has ended, no bucket is left in the map: all that
\* was absorbed has been submitted to the next stage.
C8_ShutdownDrains == pc = "done" => metrics_map = <<>>

\* C15: with max_map_size = n configured, the bucket map never holds more
\* than n keys.
C15_MaxMapSize ==
    config.max_map_size.some =>
        Cardinality(DOMAIN metrics_map) <= config.max_map_size.value

(***************************************************************************)
(* Metric and MetricTag (types.rs). A metric is its line of bytes and the  *)
(* half-open range of the tag list in it.                                  *)
(***************************************************************************)
SomeBytes(b) == [some |-> TRUE, bytes |-> b]

\* raw.windows(2).position(|x| x == [b'|', b'#']): 0-based, Len(raw) if absent
RECURSIVE PositionTagMark(_, _)
PositionTagMark(raw, from) ==
    IF from + 1 >= Len(raw) THEN Len(raw)
    ELSE IF raw[from + 1] = "|" /\ raw[from + 2] = "#" THEN from
    ELSE PositionTagMark(raw, from + 1)

Metric_new_ToEnd(raw) ==
    LET i == PositionTagMark(raw, 0)
    IN [raw |-> raw,
        tags_pos |-> IF i = Len(raw) THEN None ELSE Some(i + 2, Len(raw))]

Metric_new(raw) ==
    LET i == PositionTagMark(raw, 0)
    IN [raw |-> raw,
        tags_pos |-> IF i = Len(raw) THEN None
                     ELSE Some(i + 2, Position(raw, "|", i + 2))]

Metric_tags(m) ==
    IF m.tags_pos.some
    THEN SomeBytes(Slice(m.raw, m.tags_pos.start, m.tags_pos.end))
    ELSE None

Metric_set_tags_KeepMark(m, tags) ==
    IF tags = <<>>
    THEN IF m.tags_pos.some
         THEN [raw |-> Slice(m.raw, 0, m.tags_pos.start)
                          \o Slice(m.raw, m.tags_pos.end, Len(m.raw)),
               tags_pos |-> None]
         ELSE m
    ELSE IF m.tags_pos.some
         THEN [raw |-> Slice(m.raw, 0, m.tags_pos.start) \o tags
                          \o Slice(m.raw, m.tags_pos.end, Len(m.raw)),
               tags_pos |-> Some(m.tags_pos.start, m.tags_pos.start + Len(tags))]
         ELSE [raw |-> m.raw \o <<"|", "#">> \o tags,
               tags_pos |-> Some(Len(m.raw) + 2, Len(m.raw) + 2 + Len(tags))]

Metric_set_tags_Truncate(m, tags) ==
    IF tags = <<>>
    THEN IF m.tags_pos.some
         THEN [raw |-> Slice(m.raw, 0, m.tags_pos.start - 2)
                          \o Slice(m.raw, m.tags_pos.end, Len(m.raw)),
               tags_pos |-> None]
         ELSE m
    ELSE IF m.tags_pos.some
         THEN [raw |-> Slice(m.raw, 0, m.tags_pos.start) \o tags,
               tags_pos |-> Some(m.tags_pos.start, m.tags_pos.start + Len(tags))]
         ELSE [raw |-> m.raw \o <<"|", "#">> \o tags,
               tags_pos |-> Some(Len(m.raw) + 2, Len(m.raw) + 2 + Len(tags))]

Metric_set_tags_StaleEnd(m, tags) ==
    IF tags = <<>>
    THEN IF m.tags_pos.some
         THEN [raw |-> Slice(m.raw, 0, m.tags_pos.start - 2)
                          \o Slice(m.raw, m.tags_pos.end, Len(m.raw)),
               tags_pos |-> None]
         ELSE m
    ELSE IF m.tags_pos.some
         THEN [raw |-> Slice(m.raw, 0, m.tags_pos.start) \o tags
                          \o Slice(m.raw, m.tags_pos.end, Len(m.raw)),
               tags_pos |-> Some(m.tags_pos.start, m.tags_pos.end)]
         ELSE [raw |-> m.raw \o <<"|", "#">> \o tags,
               tags_pos |-> Some(Len(m.raw) + 2, Len(m.raw) + 2 + Len(tags))]

Metric_set_tags(m, tags) ==
    IF tags = <<>>
    THEN IF m.tags_pos.some
         THEN [raw |-> Slice(m.raw, 0, m.tags_pos.start - 2)
                          \o Slice(m.raw, m.tags_pos.end, Len(m.raw)),
               tags_pos |-> None]
         ELSE m
    ELSE IF m.tags_pos.some
         THEN [raw |-> Slice(m.raw, 0, m.tags_pos.start) \o tags
                          \o Slice(m.raw, m.tags_pos.end, Len(m.raw)),
               tags_pos |-> Some(m.tags_pos.start, m.tags_pos.start + Len(tags))]
         ELSE [raw |-> m.raw \o <<"|", "#">> \o tags,
               tags_pos |-> Some(Len(m.raw) + 2, Len(m.raw) + 2 + Len(tags))]

MetricTag_new(bytes) ==
    [raw |-> bytes,
     name_value_sep_pos |->
         IF Position(bytes, ":", 0) = Len(bytes) THEN [some |-> FALSE]
         ELSE [some |-> TRUE, pos |-> Position(bytes, ":", 0)]]

MetricTag_name(tag) ==
    IF tag.name_value_sep_pos.some
    THEN SomeBytes(Slice(tag.raw, 0, tag.name_value_sep_pos.pos))
    ELSE None

MetricTag_value(tag) ==
    IF tag.name_value_sep_pos.some
    THEN SomeBytes(Slice(tag.raw, tag.name_value_sep_pos.pos + 1, Len(tag.raw)))
    ELSE None

RECURSIVE MetricTagIterator_StopAtLastComma(_)
MetricTagIterator_StopAtLastComma(bytes) ==
    LET tag_sep_pos == Position(bytes, ",", 0)
    IN IF tag_sep_pos = Len(bytes)
       THEN <<MetricTag_new(bytes)>>
       ELSE IF tag_sep_pos + 1 = Len(bytes)
       THEN <<MetricTag_new(Slice(bytes, 0, tag_sep_pos))>>
       ELSE <<MetricTag_new(Slice(bytes, 0, tag_sep_pos))>>
                \o MetricTagIterator_StopAtLastComma(
                       Slice(bytes, tag_sep_pos + 1, Len(bytes)))

\* MetricTagIterator: every item next() yields for remaining_tags = Some(bytes)
RECURSIVE MetricTagIterator(_)
MetricTagIterator(bytes) ==
    LET tag_sep_pos == Position(bytes, ",", 0)
    IN IF tag_sep_pos = Len(bytes)
       THEN <<MetricTag_new(bytes)>>
       ELSE <<MetricTag_new(Slice(bytes, 0, tag_sep_pos))>>
                \o MetricTagIterator(Slice(bytes, tag_sep_pos + 1, Len(bytes)))

Metric_tags_iter(m) ==
    IF Metric_tags(m).some THEN MetricTagIterator(Metric_tags(m).bytes) ELSE <<>>

\* the raw bytes of the tags, joined by ','
RECURSIVE JoinTags(_)
JoinTags(tags) ==
    IF tags = <<>> THEN <<>>
    ELSE IF Len(tags) = 1 THEN tags[1].raw
    ELSE tags[1].raw \o <<",">> \o JoinTags(Tail(tags))

Metric_set_tags_from_iter(m, tags) == Metric_set_tags(m, JoinTags(tags))

(***************************************************************************)
(* A Metric built from any short byte string, then changed by set_tags.    *)
(***************************************************************************)
MaxRawLen == 6      \* length of the byte strings Metric::new is given

MaxCalls == 2       \* set_tags calls on one Metric

\* the bytes a line is made of: '|' and '#' are what Metric::new looks for,
\* ',' is what MetricTagIterator looks for
RawBytes == {"u", "|", "#", ","}

RawLines == UNION {[1 .. n -> RawBytes] : n \in 0 .. MaxRawLen}

\* the tag lists given to set_tags
TagArgs ==
    { <<>>,
      <<"t">>,
      <<"t", ":", "v", ",", "w">>,
      <<"|", "#">> }

MetricInit ==
    /\ now = StartTime
    /\ ServerIdle
    /\ StageIdle
    /\ PipelineIdle
    /\ SinkIdle
    /\ UpstreamIdle
    /\ CardinalityIdle
    /\ AggregateIdle
    /\ TagCardinalityIdle
    /\ self_metric = [raw |-> <<>>, tags_pos |-> [some |-> FALSE]]
    /\ \E raw \in RawLines : last_call = [op |-> "input", raw |-> raw, n |-> 0]

\* Metric::new on the bytes of a line
NewMetric ==
    /\ last_call.op = "input"
    /\ self_metric' = Metric_new(last_call.raw)
    /\ last_call' = [last_call EXCEPT !.op = "new"]
    /\ UNCHANGED <<now, srvVars, upVars, clVars, aggVars, callVars, tagVars, stVars, pipeVars, sinkVars>>

SetTags ==
    /\ last_call.op \in {"new", "set_tags"}
    /\ last_call.n < MaxCalls
    /\ \E tags \in TagArgs :
          /\ self_metric' = Metric_set_tags(self_metric, tags)
          /\ last_call' = [op |-> "set_tags", tags |-> tags, before |-> self_metric,
                           n |-> last_call.n + 1]
    /\ UNCHANGED <<now, srvVars, upVars, clVars, aggVars, callVars, tagVars, stVars, pipeVars, sinkVars>>

\* metric.tags_iter() run to its end: every tag next() yields, in order
TagsIter ==
    /\ last_call.op \in {"new", "set_tags"}
    /\ last_call' = [op |-> "tags_iter", yielded |-> Metric_tags_iter(self_metric),
                     n |-> last_call.n]
    /\ UNCHANGED <<now, self_metric, srvVars, upVars, clVars, aggVars, callVars, tagVars,
                   stVars, pipeVars, sinkVars>>

MetricNext ==
    \/ NewMetric
    \/ SetTags
    \/ TagsIter

SpecMetric == MetricInit /\ [][MetricNext]_vars

\* where B has `|#`: the 1-based index of each '|' that a '#' follows
TagMarks(B) == {i \in 1 .. (Len(B) - 1) : B[i] = "|" /\ B[i + 1] = "#"}

Least(S) == CHOOSE i \in S : \A k \in S : i <= k

\* the bytes after the first `|#` up to the next '|' or the end of B
TagListOf(B) ==
    LET first == Least(TagMarks(B)) + 2
        bars == {j \in first .. Len(B) : B[j] = "|"}
        last == IF bars = {} THEN Len(B) ELSE Least(bars) - 1
    IN SubSeq(B, first, last)

\* C18: Metric::new(B) keeps B as raw; tags() is absent when B has no `|#`,
\* else it is the bytes after the first `|#` up to the next '|' or the end.
C18_MetricNew ==
    last_call.op = "new" =>
        /\ self_metric.raw = last_call.raw
        /\ Metric_tags(self_metric) =
               IF TagMarks(last_call.raw) = {} THEN None
               ELSE SomeBytes(TagListOf(last_call.raw))

C18_Witness ==
    /\ last_call.op = "new"
    /\ last_call.raw = <<"u", "|", "#", "u", "#", "|">>
    /\ Metric_tags(self_metric) = SomeBytes(<<"u", "#">>)

\* C19: after set_tags(T) with T not empty, tags() is T; after set_tags(empty)
\* tags() is absent and the `|#` of the tag segment is out of raw together
\* with the tag list (a line with one `|#` has none left); set_tags(empty) on
\* a metric without tags changes nothing.
C19_SetTagsThenTags ==
    last_call.op = "set_tags" =>
        LET before == last_call.before
        IN /\ last_call.tags # <<>> =>
                  Metric_tags(self_metric) = SomeBytes(last_call.tags)
           /\ last_call.tags = <<>> =>
                  /\ Metric_tags(self_metric) = None
                  /\ before.tags_pos.some =>
                        /\ self_metric.raw =
                               SubSeq(before.raw, 1, before.tags_pos.start - 2)
                                  \o SubSeq(before.raw, before.tags_pos.end + 1,
                                            Len(before.raw))
                        /\ Cardinality(TagMarks(before.raw)) = 1 =>
                               TagMarks(self_metric.raw) = {}
                  /\ ~before.tags_pos.some => self_metric = before

\* a tag list followed by an extension is taken out, `|#` included
C19_Witness ==
    /\ last_call.op = "set_tags"
    /\ last_call.tags = <<>>
    /\ last_call.before.raw = <<"u", "|", "#", "u", "|", "u">>
    /\ self_metric.raw = <<"u", "|", "u">>

\* the bytes of raw before the tag list (the `|#` included) and after it
BytesBefore(m) == SubSeq(m.raw, 1, m.tags_pos.start)
BytesAfter(m) == SubSeq(m.raw, m.tags_pos.end + 1, Len(m.raw))

\* C20 as stated: on a metric with a tag segment, set_tags(T) leaves the bytes
\* before the tag list, the `|#` included, and the bytes after it as they
\* were; the tag list alone is replaced by T.
C20_AsStated ==
    (last_call.op = "set_tags" /\ last_call.before.tags_pos.some) =>
        self_metric.raw = BytesBefore(last_call.before) \o last_call.tags
                             \o BytesAfter(last_call.before)

\* C20 amended: that holds for T not empty; for the empty T the `|#` goes
\* with the tag list, and every other byte stays.
C20_SetTagsFrame ==
    (last_call.op = "set_tags" /\ last_call.before.tags_pos.some) =>
        LET before == last_call.before
        IN IF last_call.tags # <<>>
           THEN self_metric.raw = BytesBefore(before) \o last_call.tags
                                     \o BytesAfter(before)
           ELSE self_metric.raw =
                    SubSeq(BytesBefore(before), 1, Len(BytesBefore(before)) - 2)
                       \o BytesAfter(before)

C20_Witness ==
    /\ last_call.op = "set_tags"
    /\ last_call.tags = <<"t">>
    /\ last_call.before.raw = <<"u", "|", "#", "u", "|", "u">>
    /\ self_metric.raw = <<"u", "|", "#", "t", "|", "u">>

\* the raw bytes of a sequence of tags, with a ',' between neighbours
RECURSIVE CommaJoined(_)
CommaJoined(tags) ==
    IF tags = <<>> THEN <<>>
    ELSE IF Len(tags) = 1 THEN tags[1].raw
    ELSE tags[1].raw \o <<",">> \o CommaJoined(Tail(tags))

\* C21: for a metric with a tag segment, the raw bytes of the tags tags_iter
\* yields, joined with ',', are tags(); no yielded tag holds a ','; an empty
\* segment is yielded as a tag with no name and no value, so an empty tag list
\* yields one empty tag; a metric without a tag segment yields no tag.
C21_TagsIterRoundTrip ==
    last_call.op = "tags_iter" =>
        LET yielded == last_call.yielded
        IN IF Metric_tags(self_metric).some
           THEN /\ yielded # <<>>
                /\ CommaJoined(yielded) = Metric_tags(self_metric).bytes
                /\ \A k \in 1 .. Len(yielded) :
                      /\ \A n \in 1 .. Len(yielded[k].raw) : yielded[k].raw[n] # ","
                      /\ yielded[k].raw = <<>> =>
                            /\ MetricTag_name(yielded[k]) = None
                            /\ MetricTag_value(yielded[k]) = None
                /\ Metric_tags(self_metric).bytes = <<>> =>
                      yielded = <<MetricTag_new(<<>>)>>
           ELSE yielded = <<>>

\* `u|#,u,`: an empty tag, then u, then the empty tag after the last comma
C21_Witness ==
    /\ last_call.op = "tags_iter"
    /\ self_metric.raw = <<"u", "|", "#", ",", "u", ",">>
    /\ Len(last_call.yielded) = 3
    /\ last_call.yielded[3].raw = <<>>

(***************************************************************************)
(* TagCardinalityLimit                                                     *)
(***************************************************************************)
MaxTagSubmits == 3     \* metrics submitted to the stage in one run

\* the `limits` lists of the configurations checked; "*" is the wildcard
TagLimitConfigs ==
    { << [tag |-> <<"e">>, limit |-> 1] >>,
      << [tag |-> <<"e">>, limit |-> 2] >>,
      << [tag |-> <<"e">>, limit |-> 0] >>,
      << [tag |-> <<"*">>, limit |-> 1] >>,
      << [tag |-> <<"*">>, limit |-> 2], [tag |-> <<"e">>, limit |-> 1] >> }

TagQuota_from(cfg) == [tag |-> cfg.tag, limit |-> cfg.limit, values_seen |-> {}]

TagCardinalityLimit_new(limits) == [i \in 1 .. Len(limits) |-> TagQuota_from(limits[i])]

\* quota.tag == "*" || quota.tag.as_bytes() == tag_name
QuotaMatches(quota, tag) ==
    \/ quota.tag = <<"*">>
    \/ MetricTag_name(tag) = SomeBytes(quota.tag)

TagFits_FullDropsAll(qs, tag) ==
    IF MetricTag_value(tag).some
    THEN ~ \E i \in 1 .. Len(qs) :
              /\ QuotaMatches(qs[i], tag)
              /\ Cardinality(qs[i].values_seen) >= qs[i].limit
    ELSE TRUE

\* the closure given to filter: false drops the tag
TagFits(qs, tag) ==
    IF MetricTag_value(tag).some
    THEN ~ \E i \in 1 .. Len(qs) :
              /\ QuotaMatches(qs[i], tag)
              /\ Cardinality(qs[i].values_seen) >= qs[i].limit
              /\ MetricTag_value(tag).bytes \notin qs[i].values_seen
    ELSE TRUE

\* the "Increment quotas" loop over the tags of the rewritten metric
IncrementQuotas(qs, tags) ==
    [i \in 1 .. Len(qs) |->
        [qs[i] EXCEPT !.values_seen =
            @ \cup {MetricTag_value(tags[k]).bytes :
                        k \in {n \in 1 .. Len(tags) :
                                  /\ QuotaMatches(qs[i], tags[n])
                                  /\ MetricTag_value(tags[n]).some}}]]

TagCardinalityLimit_submit_CountInput(qs, m) ==
    LET fits(tag) == TagFits(qs, tag)
        rewritten_metric ==
            Metric_set_tags_from_iter(m, SelectSeq(Metric_tags_iter(m), fits))
    IN [out |-> rewritten_metric,
        quotas |-> IncrementQuotas(qs, Metric_tags_iter(m))]

TagCardinalityLimit_submit(qs, m) ==
    LET fits(tag) == TagFits(qs, tag)
        rewritten_metric ==
            Metric_set_tags_from_iter(m, SelectSeq(Metric_tags_iter(m), fits))
    IN [out |-> rewritten_metric,
        quotas |-> IncrementQuotas(qs, Metric_tags_iter(rewritten_metric))]

\* the metric lines submitted: u:1|c with tag lists
TagMetricHead == <<"u", ":", "1", "|", "c">>

TagMetrics ==
    { TagMetricHead,
      TagMetricHead \o <<"|", "#">>,
      TagMetricHead \o <<"|", "#", "e", ":", "p">>,
      TagMetricHead \o <<"|", "#", "e", ":", "d">>,
      TagMetricHead \o <<"|", "#", "e">>,
      TagMetricHead \o <<"|", "#", "e", ":", "p", ",", "e", ":", "d">>,
      TagMetricHead \o <<"|", "#", "h", ":", "d", ",", "e", ":", "p">>,
      TagMetricHead \o <<"|", "#", "e", ":", "d", ",", ",", "e", "|", "T", "1">> }

TagInit ==
    /\ now = StartTime
    /\ ServerIdle
    /\ StageIdle
    /\ PipelineIdle
    /\ SinkIdle
    /\ UpstreamIdle
    /\ CardinalityIdle
    /\ AggregateIdle
    /\ MetricIdle
    /\ \E limits \in TagLimitConfigs : tag_quotas = TagCardinalityLimit_new(limits)
    /\ tag_out = <<>>
    /\ tag_last = [op |-> "none"]

TagSubmit ==
    /\ Len(tag_out) < MaxTagSubmits
    /\ \E raw \in TagMetrics :
          LET r == TagCardinalityLimit_submit(tag_quotas, Metric_new(raw))
          IN /\ tag_quotas' = r.quotas
             /\ tag_out' = Append(tag_out, r.out.raw)
             /\ tag_last' = [op |-> "submit", raw |-> raw, quotas |-> tag_quotas]
    /\ UNCHANGED <<now, srvVars, upVars, clVars, aggVars, callVars, tyVars, stVars, pipeVars, sinkVars>>

TagNext == TagSubmit

SpecTagCardinality == TagInit /\ [][TagNext]_vars

(***************************************************************************)
(* Properties of TagCardinalityLimit.                                      *)
(***************************************************************************)
\* the tags a line carries, as a reader of the line finds them
TagsOfRaw(raw) == Metric_tags_iter(Metric_new(raw))

\* the values forwarded downstream so far in tags the quota matches
ForwardedValues(quota) ==
    UNION { {MetricTag_value(TagsOfRaw(tag_out[k])[n]).bytes :
                n \in {j \in 1 .. Len(TagsOfRaw(tag_out[k])) :
                          /\ QuotaMatches(quota, TagsOfRaw(tag_out[k])[j])
                          /\ MetricTag_value(TagsOfRaw(tag_out[k])[j]).some}} :
            k \in 1 .. Len(tag_out) }

\* C13: no quota ever holds more than `limit` values in values_seen, and no
\* more than `limit` distinct values were forwarded in tags it matches.
C13_TagCap ==
    \A i \in 1 .. Len(tag_quotas) :
        /\ Cardinality(tag_quotas[i].values_seen) <= tag_quotas[i].limit
        /\ Cardinality(ForwardedValues(tag_quotas[i])) <= tag_quotas[i].limit

\* a tag the drop rule removes: it has a value, and some matching quota is
\* full and has not seen that value
Removed(tag) ==
    /\ MetricTag_value(tag).some
    /\ \E i \in 1 .. Len(tag_quotas) :
          /\ QuotaMatches(tag_quotas[i], tag)
          /\ Cardinality(tag_quotas[i].values_seen) >= tag_quotas[i].limit
          /\ MetricTag_value(tag).bytes \notin tag_quotas[i].values_seen

Kept(tag) == ~Removed(tag)

MaxStageCalls == 2     \* calls made on the stage in one run

SampleScale == 4       \* sample rates and draws are counted in 1/SampleScale

\* Vec<String>::join(",")
RECURSIVE Strings_join(_)
Strings_join(strs) ==
    IF strs = <<>> THEN <<>>
    ELSE IF Len(strs) = 1 THEN strs[1]
    ELSE strs[1] \o <<",">> \o Strings_join(Tail(strs))

\* the `tags` lists of the AddTag configurations checked
AddTagConfigs ==
    { [tags |-> <<>>],
      [tags |-> << <<"e", ":", "p">> >>],
      [tags |-> << <<"e", ":", "p">>, <<"z">> >>] }

AddTag_new(cfg) == [kind |-> "AddTag", config |-> cfg, tags |-> Strings_join(cfg.tags)]

AddTag_submit_Replace(self, metric) ==
    Metric_set_tags(metric, self.tags)

\* the metric given to self.next.submit
AddTag_submit(self, metric) ==
    IF Metric_tags(metric).some
    THEN Metric_set_tags(metric, Metric_tags(metric).bytes \o <<",">> \o self.tags)
    ELSE Metric_set_tags(metric, self.tags)

\* the `tags` lists of the AllowTag configurations checked
AllowTagConfigs ==
    { [tags |-> <<>>],
      [tags |-> << <<"a">> >>],
      [tags |-> << <<"a">>, <<"b">>, <<"a", "b">> >>] }

AllowTag_new(cfg) ==
    [kind |-> "AllowTag", config |-> cfg,
     tags |-> {cfg.tags[i] : i \in 1 .. Len(cfg.tags)}]

\* self.tags.contains(tag.name()): name() of types.rs is absent without a ':'
AllowTag_contains(self, tag) ==
    /\ MetricTag_name(tag).some
    /\ MetricTag_name(tag).bytes \in self.tags

AllowTag_submit_KeepNameless(self, metric) ==
    LET keep(tag) == ~MetricTag_name(tag).some \/ AllowTag_contains(self, tag)
        tags_to_keep == SelectSeq(Metric_tags_iter(metric), keep)
        rewrite_tags == \E k \in 1 .. Len(Metric_tags_iter(metric)) :
                            ~keep(Metric_tags_iter(metric)[k])
    IN IF rewrite_tags THEN Metric_set_tags_from_iter(metric, tags_to_keep) ELSE metric

\* the metric given to self.next.submit
AllowTag_submit(self, metric) ==
    LET keep(tag) == AllowTag_contains(self, tag)
        tags_to_keep == SelectSeq(Metric_tags_iter(metric), keep)
        rewrite_tags == \E k \in 1 .. Len(Metric_tags_iter(metric)) :
                            ~keep(Metric_tags_iter(metric)[k])
    IN IF rewrite_tags THEN Metric_set_tags_from_iter(metric, tags_to_keep) ELSE metric

\* the pattern lists of the DenyTag configurations checked
DenyTagConfigs ==
    { [starts_with |-> <<>>, ends_with |-> <<>>, tags |-> <<>>],
      [starts_with |-> <<>>, ends_with |-> <<>>, tags |-> << <<"a">> >>],
      [starts_with |-> << <<"a">> >>, ends_with |-> <<>>, tags |-> <<>>],
      [starts_with |-> <<>>, ends_with |-> << <<"b">> >>, tags |-> <<>>],
      [starts_with |-> << <<"a">> >>, ends_with |-> << <<"b">> >>,
       tags |-> << <<"b">>, <<"b">> >>] }

DenyTag_new(cfg) ==
    [kind |-> "DenyTag", config |-> cfg,
     filters |->
         {[type |-> "StartsWith", s |-> cfg.starts_with[i]] : i \in 1 .. Len(cfg.starts_with)}
         \cup {[type |-> "EndsWith", s |-> cfg.ends_with[i]] : i \in 1 .. Len(cfg.ends_with)}
         \cup {[type |-> "Equals", s |-> cfg.tags[i]] : i \in 1 .. Len(cfg.tags)}]

DenyType_matches_EqualsOnly(f, value) == f.s = value

DenyType_matches(f, value) ==
    CASE f.type = "StartsWith" ->
             Len(f.s) <= Len(value) /\ SubSeq(value, 1, Len(f.s)) = f.s
      [] f.type = "EndsWith" ->
             Len(f.s) <= Len(value)
                /\ SubSeq(value, Len(value) - Len(f.s) + 1, Len(value)) = f.s
      [] f.type = "Equals" -> f.s = value

\* self.filters.iter().any(|f| f.matches(tag.name())): name() of types.rs is
\* absent without a ':'
DenyTag_any_matches(self, tag) ==
    /\ MetricTag_name(tag).some
    /\ \E f \in self.filters : DenyType_matches(f, MetricTag_name(tag).bytes)

\* the metric given to self.next.submit
DenyTag_submit(self, metric) ==
    LET keep(tag) == ~DenyTag_any_matches(self, tag)
        tags_to_keep == SelectSeq(Metric_tags_iter(metric), keep)
        rewrite_tags == \E k \in 1 .. Len(Metric_tags_iter(metric)) :
                            ~keep(Metric_tags_iter(metric)[k])
    IN IF rewrite_tags THEN Metric_set_tags_from_iter(metric, tags_to_keep) ELSE metric

\* the sample rates checked: 0, 1/2 and 1
SampleConfigs ==
    { [sample_rate |-> 0],
      [sample_rate |-> SampleScale \div 2],
      [sample_rate |-> SampleScale] }

Sample_new(cfg) == [kind |-> "Sample", config |-> cfg]

\* what self.rng.gen::<f64>() may return: a value in [0, 1)
Draws == 0 .. (SampleScale - 1)

Sample_submit_AtMost(self, decision) ==
    IF self.config.sample_rate = 0 THEN FALSE
    ELSE decision <= self.config.sample_rate

\* whether submit calls self.next.submit(metric)
Sample_submit(self, decision) ==
    IF self.config.sample_rate = 0 THEN FALSE
    ELSE decision < self.config.sample_rate

\* the metric lines submitted: u:1|c with tag lists
StageMetrics ==
    { TagMetricHead,
      TagMetricHead \o <<"|", "#">>,
      TagMetricHead \o <<"|", "#", "a", ":", "1">>,
      TagMetricHead \o <<"|", "#", "a", ":", "1", ",", "b", ":", "2">>,
      TagMetricHead \o <<"|", "#", "b", ":", "2", ",", "a", ":", "1", ",", "a", "b">>,
      TagMetricHead \o <<"|", "#", "a", ":", "1", ",">>,
      TagMetricHead \o <<"|", "#", "a", "b", ":", "1", ",", ",", "b", "|", "T", "1">> }

StageInit ==
    /\ now = StartTime
    /\ ServerIdle
    /\ PipelineIdle
    /\ SinkIdle
    /\ UpstreamIdle
    /\ CardinalityIdle
    /\ AggregateIdle
    /\ TagCardinalityIdle
    /\ MetricIdle
    /\ stage \in {AddTag_new(cfg) : cfg \in AddTagConfigs}
                    \cup {AllowTag_new(cfg) : cfg \in AllowTagConfigs}
                    \cup {DenyTag_new(cfg) : cfg \in DenyTagConfigs}
                    \cup {Sample_new(cfg) : cfg \in SampleConfigs}
    /\ stage_out = <<>>
    /\ stage_last = [op |-> "none", n |-> 0]

\* the stage's submit for a metric that changes tags and always forwards
StageForward(raw, forwarded_metric) ==
    /\ stage_out' = Append(stage_out, [op |-> "submit", metric |-> forwarded_metric])
    /\ stage_last' = [op |-> "submit", metric |-> Metric_new(raw),
                      n |-> stage_last.n + 1]
    /\ UNCHANGED <<now, stage, srvVars, upVars, clVars, aggVars, callVars, tagVars,
                   tyVars, pipeVars, sinkVars>>

AddTagSubmit ==
    /\ stage.kind = "AddTag"
    /\ stage_last.n < MaxStageCalls
    /\ \E raw \in StageMetrics :
          StageForward(raw, AddTag_submit(stage, Metric_new(raw)))

AllowTagSubmit ==
    /\ stage.kind = "AllowTag"
    /\ stage_last.n < MaxStageCalls
    /\ \E raw \in StageMetrics :
          StageForward(raw, AllowTag_submit(stage, Metric_new(raw)))

DenyTagSubmit ==
    /\ stage.kind = "DenyTag"
    /\ stage_last.n < MaxStageCalls
    /\ \E raw \in StageMetrics :
          StageForward(raw, DenyTag_submit(stage, Metric_new(raw)))

SampleSubmit ==
    /\ stage.kind = "Sample"
    /\ stage_last.n < MaxStageCalls
    /\ \E raw \in StageMetrics, decision \in Draws :
          /\ stage_out' = IF Sample_submit(stage, decision)
                          THEN Append(stage_out,
                                      [op |-> "submit", metric |-> Metric_new(raw)])
                          ELSE stage_out
          /\ stage_last' = [op |-> "submit", metric |-> Metric_new(raw),
                            decision |-> decision, n |-> stage_last.n + 1]
    /\ UNCHANGED <<now, stage, srvVars, upVars, clVars, aggVars, callVars, tagVars,
                   tyVars, pipeVars, sinkVars>>

\* poll of each of the four stages: self.next.poll()
StagePoll ==
    /\ stage_last.n < MaxStageCalls
    /\ stage_out' = Append(stage_out, [op |-> "poll"])
    /\ stage_last' = [op |-> "poll", n |-> stage_last.n + 1]
    /\ UNCHANGED <<now, stage, srvVars, upVars, clVars, aggVars, callVars, tagVars,
                   tyVars, pipeVars, sinkVars>>

\* join of each of the four stages: self.next.join()
StageJoin ==
    /\ stage_last.n < MaxStageCalls
    /\ stage_out' = Append(stage_out, [op |-> "join"])
    /\ stage_last' = [op |-> "join", n |-> stage_last.n + 1]
    /\ UNCHANGED <<now, stage, srvVars, upVars, clVars, aggVars, callVars, tagVars,
                   tyVars, pipeVars, sinkVars>>

StageNext ==
    \/ AddTagSubmit
    \/ AllowTagSubmit
    \/ DenyTagSubmit
    \/ SampleSubmit
    \/ StagePoll
    \/ StageJoin

SpecStages == StageInit /\ [][StageNext]_vars

(***************************************************************************)
(* Properties of AddTag, AllowTag, DenyTag and Sample.                     *)
(***************************************************************************)
\* the metric the latest submit was given, and the latest call on the next stage
StageIn == stage_last'.metric
StageOut == stage_out'[Len(stage_out')]

ForwardedOnce ==
    /\ Len(stage_out') = Len(stage_out) + 1
    /\ SubSeq(stage_out', 1, Len(stage_out)) = stage_out
    /\ StageOut.op = "submit"

\* C22 as stated: AddTag forwards each metric once; a tag list S becomes S, a
\* ',' and the configured tags joined by ','; without a tag segment `|#` and
\* the joined tags are put at the end of the line; no other byte changes.
C22_AsStated ==
    [][ AddTagSubmit =>
          LET joined == Strings_join(stage.config.tags)
          IN /\ ForwardedOnce
             /\ StageOut.metric.raw =
                    IF StageIn.tags_pos.some
                    THEN BytesBefore(StageIn) \o Metric_tags(StageIn).bytes
                            \o <<",">> \o joined \o BytesAfter(StageIn)
                    ELSE StageIn.raw \o <<"|", "#">> \o joined ]_vars

\* C22 amended: as stated, except that a metric without a tag segment is
\* forwarded as it came when the joined configured tags are empty.
C22_AddTag ==
    [][ AddTagSubmit =>
          LET joined == Strings_join(stage.config.tags)
          IN /\ ForwardedOnce
             /\ StageOut.metric.raw =
                    IF StageIn.tags_pos.some
                    THEN BytesBefore(StageIn) \o Metric_tags(StageIn).bytes
                            \o <<",">> \o joined \o BytesAfter(StageIn)
                    ELSE IF joined = <<>> THEN StageIn.raw
                    ELSE StageIn.raw \o <<"|", "#">> \o joined ]_vars

\* two tags configured, a tag list followed by an extension
C22_Witness ==
    /\ stage.kind = "AddTag"
    /\ stage_last.op = "submit"
    /\ stage_last.metric.raw =
           TagMetricHead \o <<"|", "#", "a", "b", ":", "1", ",", ",", "b", "|", "T", "1">>
    /\ stage_out[Len(stage_out)].metric.raw =
           TagMetricHead \o <<"|", "#", "a", "b", ":", "1", ",", ",", "b", ",",
                              "e", ":", "p", ",", "z", "|", "T", "1">>

\* C23: AllowTag forwards each metric once; its tags are the tags of the input
\* whose name is in the configured set, in their order (a tag without a name is
\* not among them); with none left the tag segment is gone; when every tag of
\* the input has its name in the set the metric is forwarded as it came.
C23_AllowTag ==
    [][ AllowTagSubmit =>
          LET allowed(tag) == /\ MetricTag_name(tag).some
                              /\ \E i \in 1 .. Len(stage.config.tags) :
                                    stage.config.tags[i] = MetricTag_name(tag).bytes
              kept == SelectSeq(Metric_tags_iter(StageIn), allowed)
          IN /\ ForwardedOnce
             /\ Metric_tags_iter(StageOut.metric) = kept
             /\ kept = <<>> =>
                    /\ ~StageOut.metric.tags_pos.some
                    /\ StageIn.tags_pos.some =>
                          StageOut.metric.raw =
                              SubSeq(StageIn.raw, 1, StageIn.tags_pos.start - 2)
                                 \o BytesAfter(StageIn)
             /\ kept = Metric_tags_iter(StageIn) => StageOut.metric = StageIn ]_vars

\* b:2 is not allowed and `ab` has no name: a:1 alone is left
C23_Witness ==
    /\ stage.kind = "AllowTag"
    /\ stage.tags = {<<"a">>}
    /\ stage_last.op = "submit"
    /\ stage_last.metric.raw = TagMetricHead
           \o <<"|", "#", "b", ":", "2", ",", "a", ":", "1", ",", "a", "b">>
    /\ stage_out[Len(stage_out)].metric.raw = TagMetricHead \o <<"|", "#", "a", ":", "1">>

\* a tag DenyTag removes: it has a name, and the name starts with a prefix,
\* ends with a suffix or is one of the tags of the configuration
Denied(tag) ==
    /\ MetricTag_name(tag).some
    /\ LET name == MetricTag_name(tag).bytes
           cfg == stage.config
       IN \/ \E i \in 1 .. Len(cfg.starts_with) :
                \E n \in 0 .. Len(name) : SubSeq(name, 1, n) = cfg.starts_with[i]
          \/ \E i \in 1 .. Len(cfg.ends_with) :
                \E n \in 1 .. (Len(name) + 1) :
                    SubSeq(name, n, Len(name)) = cfg.ends_with[i]
          \/ \E i \in 1 .. Len(cfg.tags) : name = cfg.tags[i]

NotDenied(tag) == ~Denied(tag)

\* C24 as stated: DenyTag forwards each metric once; its tags are the tags of
\* the input that match no pattern, in their order, tags without a name and
\* empty tags among them; when no tag matches the metric is forwarded as it came.
C24_AsStated ==
    [][ DenyTagSubmit =>
          LET kept == SelectSeq(Metric_tags_iter(StageIn), NotDenied)
          IN /\ ForwardedOnce
             /\ Metric_tags_iter(StageOut.metric) = kept
             /\ kept = Metric_tags_iter(StageIn) => StageOut.metric = StageIn ]_vars

\* C24 amended: as stated, except that when a tag was removed and the only tag
\* left is one empty tag, the tag segment is removed and no tag is forwarded.
C24_DenyTag ==
    [][ DenyTagSubmit =>
          LET kept == SelectSeq(Metric_tags_iter(StageIn), NotDenied)
              removed_any == kept # Metric_tags_iter(StageIn)
          IN /\ ForwardedOnce
             /\ Metric_tags_iter(StageOut.metric) =
                    IF removed_any /\ kept = <<MetricTag_new(<<>>)>> THEN <<>> ELSE kept
             /\ ~removed_any => StageOut.metric = StageIn ]_vars

\* ab:1 starts with a; the empty tag, b without a name and the extension stay
C24_Witness ==
    /\ stage.kind = "DenyTag"
    /\ stage.config.starts_with = << <<"a">> >>
    /\ stage_last.op = "submit"
    /\ stage_last.metric.raw =
           TagMetricHead \o <<"|", "#", "a", "b", ":", "1", ",", ",", "b", "|", "T", "1">>
    /\ stage_out[Len(stage_out)].metric.raw =
           TagMetricHead \o <<"|", "#", ",", "b", "|", "T", "1">>

\* C25: Sample forwards the metric, as it came and once, when the draw is
\* below sample_rate, and forwards nothing otherwise: never with sample_rate 0,
\* always with sample_rate 1; its poll and join always reach the next stage.
C25_Sample ==
    [][ /\ SampleSubmit =>
              LET rate == stage.config.sample_rate
                  forwards == stage_last'.decision < rate
              IN /\ forwards =>
                       stage_out' = Append(stage_out,
                                           [op |-> "submit", metric |-> StageIn])
                 /\ ~forwards => stage_out' = stage_out
                 /\ rate = 0 => stage_out' = stage_out
                 /\ rate = SampleScale => stage_out' # stage_out
        /\ (stage.kind = "Sample" /\ StagePoll) =>
              stage_out' = Append(stage_out, [op |-> "poll"])
        /\ (stage.kind = "Sample" /\ StageJoin) =>
              stage_out' = Append(stage_out, [op |-> "join"]) ]_vars

\* a draw below the rate was forwarded, then a draw equal to the rate was not
C25_Witness ==
    /\ stage.kind = "Sample"
    /\ stage.config.sample_rate = SampleScale \div 2
    /\ stage_last.op = "submit"
    /\ stage_last.decision = stage.config.sample_rate
    /\ Len(stage_out) = 1
    /\ stage_out[1].op = "submit"

(***************************************************************************)
(* main: the chain built from config.middlewares, and the way of a metric  *)
(* through it, from stage to stage down to the Upstream.                   *)
(***************************************************************************)
MaxStages == 2         \* entries of config.middlewares

MaxPipeMetrics == 2    \* metrics the server submits to the chain in one run

\* the kinds of MiddlewareConfig that main builds a stage for
PipeKinds ==
    {"AllowTag", "DenyTag", "CardinalityLimit", "AggregateMetrics", "AddTag",
     "TagCardinalityLimit"}

MiddlewareConfigs == UNION {[1 .. n -> PipeKinds] : n \in 0 .. MaxStages}

\* .rev() of an iterator
Reverse(s) == [i \in 1 .. Len(s) |-> s[Len(s) + 1 - i]]

\* the for loop of main: each stage is built around the client built so far;
\* a chain is written from its head down, client[i + 1] is `next` of client[i]
RECURSIVE BuildClient(_, _)
BuildClient(configs, cl) ==
    IF configs = <<>> THEN cl
    ELSE BuildClient(Tail(configs), <<Head(configs)>> \o cl)

main_client_InOrder(configs) == BuildClient(configs, <<"Upstream">>)

main_client(configs) == BuildClient(Reverse(configs), <<"Upstream">>)

\* the stages whose submit may return without calling self.next.submit
MayHold == {"CardinalityLimit", "AggregateMetrics"}

PipeInit ==
    /\ now = StartTime
    /\ ServerIdle
    /\ StageIdle
    /\ SinkIdle
    /\ UpstreamIdle
    /\ CardinalityIdle
    /\ AggregateIdle
    /\ TagCardinalityIdle
    /\ MetricIdle
    /\ middlewares \in MiddlewareConfigs
    /\ client = main_client(middlewares)
    /\ pipe_at = 0
    /\ pipe_trace = <<>>

\* the metrics submitted to the head so far
PipeBegun == Cardinality({k \in 1 .. Len(pipe_trace) : pipe_trace[k].saw = <<>>})

\* Server::run: self.middleware.submit(metric) on the head of the chain; a
\* metric is written as the stages that passed it on, none yet
PipeBegin ==
    /\ pipe_at = 0
    /\ PipeBegun < MaxPipeMetrics
    /\ pipe_at' = 1
    /\ pipe_trace' = Append(pipe_trace, [stage |-> client[1], saw |-> <<>>])
    /\ UNCHANGED <<now, middlewares, client, srvVars, upVars, clVars, aggVars, callVars,
                   tagVars, tyVars, stVars, sinkVars>>

\* a stage calls self.next.submit with the metric as it leaves the stage
PipeForward ==
    /\ pipe_at > 0
    /\ client[pipe_at] # "Upstream"
    /\ pipe_at' = pipe_at + 1
    /\ pipe_trace' = Append(pipe_trace,
                            [stage |-> client[pipe_at + 1],
                             saw |-> Append(pipe_trace[Len(pipe_trace)].saw,
                                            client[pipe_at])])
    /\ UNCHANGED <<now, middlewares, client, srvVars, upVars, clVars, aggVars, callVars,
                   tagVars, tyVars, stVars, sinkVars>>

\* CardinalityLimit drops the metric, AggregateMetrics absorbs it: submit
\* returns up the chain and the next stage is not called
PipeHold ==
    /\ pipe_at > 0
    /\ client[pipe_at] \in MayHold
    /\ pipe_at' = 0
    /\ UNCHANGED <<now, middlewares, client, pipe_trace, srvVars, upVars, clVars, aggVars,
                   callVars, tagVars, tyVars, stVars, sinkVars>>

\* Upstream::submit takes the metric; every submit on the way returns
PipeSend ==
    /\ pipe_at > 0
    /\ client[pipe_at] = "Upstream"
    /\ pipe_at' = 0
    /\ UNCHANGED <<now, middlewares, client, pipe_trace, srvVars, upVars, clVars, aggVars,
                   callVars, tagVars, tyVars, stVars, sinkVars>>

PipeNext ==
    \/ PipeBegin
    \/ PipeForward
    \/ PipeHold
    \/ PipeSend

SpecPipeline == PipeInit /\ [][PipeNext]_vars

\* C26: the stages handle a metric in the order of the configuration: the
\* k-th stage to get it is the k-th configured middleware and gets it as the
\* k - 1 stages before left it; the Upstream gets it after all of them and is
\* the end of the chain.
C26_PipelineOrder ==
    /\ Len(client) = Len(middlewares) + 1
    /\ client[Len(client)] = "Upstream"
    /\ \A j \in 1 .. Len(pipe_trace) :
          LET k == Len(pipe_trace[j].saw) + 1
          IN /\ k <= Len(middlewares) + 1
             /\ pipe_trace[j].saw = SubSeq(middlewares, 1, k - 1)
             /\ pipe_trace[j].stage =
                    IF k <= Len(middlewares) THEN middlewares[k] ELSE "Upstream"
             /\ k > 1 => /\ j > 1
                         /\ pipe_trace[j - 1].saw = SubSeq(middlewares, 1, k - 2)

\* add-tag then cardinality-limit: the Upstream got what both passed on
C26_Witness ==
    /\ middlewares = <<"AddTag", "CardinalityLimit">>
    /\ pipe_at = 0
    /\ pipe_trace = << [stage |-> "AddTag", saw |-> <<>>],
                       [stage |-> "CardinalityLimit", saw |-> <<"AddTag">>],
                       [stage |-> "Upstream", saw |-> <<"AddTag", "CardinalityLimit">>] >>

(***************************************************************************)
(* StatsdProxyMetricSink (cadence.rs): producer threads calling emit on    *)
(* one sink. A chain is written as the number of the factory call that     *)
(* built it and the metrics submitted to it.                               *)
(***************************************************************************)
MaxProducers == 2      \* threads that emit through the sink

MaxEmits == 4          \* emit calls in one run

Producers == 1 .. MaxProducers

\* StatsdProxyMetricSink::new: ThreadLocal::new(), no slot filled
StatsdProxyMetricSink_new == [t \in Producers |-> [some |-> FALSE]]

\* the chains built so far: one (self.middleware_factory)() call each
Chains == {t \in Producers : sink_next[t].some}

\* self.next.get_or(|| RefCell::new((self.middleware_factory)())): the slot of
\* the calling thread, filled by the factory when it is empty
ThreadLocal_get_or(next, t) ==
    IF next[t].some THEN next
    ELSE [next EXCEPT ![t] = [some |-> TRUE,
                              id |-> Cardinality({u \in Producers : next[u].some}) + 1,
                              polls |-> 0,
                              seen |-> <<>>]]

SinkInit ==
    /\ now = StartTime
    /\ ServerIdle
    /\ StageIdle
    /\ PipelineIdle
    /\ UpstreamIdle
    /\ CardinalityIdle
    /\ AggregateIdle
    /\ TagCardinalityIdle
    /\ MetricIdle
    /\ sink_next = StatsdProxyMetricSink_new
    /\ emit_pc = [t \in Producers |-> "idle"]
    /\ emit_log = <<>>

\* emit, up to Metric::new: the thread takes its own slot and borrows it
EmitBorrow(t) ==
    /\ emit_pc[t] = "idle"
    /\ Len(emit_log) < MaxEmits
    /\ sink_next' = ThreadLocal_get_or(sink_next, t)
    /\ emit_pc' = [emit_pc EXCEPT ![t] = "poll"]
    /\ emit_log' = Append(emit_log, [thread |-> t, n |-> Len(emit_log) + 1])
    /\ UNCHANGED <<now, srvVars, upVars, clVars, aggVars, callVars, tagVars, tyVars,
                   stVars, pipeVars>>

\* next.poll()
EmitPoll(t) ==
    /\ emit_pc[t] = "poll"
    /\ sink_next' = [sink_next EXCEPT ![t].polls = @ + 1]
    /\ emit_pc' = [emit_pc EXCEPT ![t] = "submit"]
    /\ UNCHANGED <<now, emit_log, srvVars, upVars, clVars, aggVars, callVars, tagVars,
                   tyVars, stVars, pipeVars>>

\* the metric this thread is emitting: its latest entry of emit_log
Emitting(t) ==
    emit_log[CHOOSE k \in 1 .. Len(emit_log) :
                 /\ emit_log[k].thread = t
                 /\ \A j \in (k + 1) .. Len(emit_log) : emit_log[j].thread # t]

\* next.submit(&mut cooked_metric), then the borrow ends and emit returns
EmitSubmit(t) ==
    /\ emit_pc[t] = "submit"
    /\ sink_next' = [sink_next EXCEPT ![t].seen = Append(@, Emitting(t))]
    /\ emit_pc' = [emit_pc EXCEPT ![t] = "idle"]
    /\ UNCHANGED <<now, emit_log, srvVars, upVars, clVars, aggVars, callVars, tagVars,
                   tyVars, stVars, pipeVars>>

SinkNext ==
    \/ \E t \in Producers : EmitBorrow(t)
    \/ \E t \in Producers : EmitPoll(t)
    \/ \E t \in Producers : EmitSubmit(t)

SpecSink == SinkInit /\ [][SinkNext]_vars

\* C27: the producers share one chain; one producer at a time is between the
\* start of its emit and the end of its submit; and once no emit is running
\* the chain has been given the metrics of every producer.
C27_SharedChain ==
    /\ Cardinality({sink_next[t].id : t \in Chains}) <= 1
    /\ Cardinality({t \in Producers : emit_pc[t] # "idle"}) <= 1
    /\ (\A t \in Producers : emit_pc[t] = "idle") =>
          \A t \in Chains :
              \A k \in 1 .. Len(emit_log) :
                  \E n \in 1 .. Len(sink_next[t].seen) : sink_next[t].seen[n] = emit_log[k]

(***************************************************************************)
(* More properties of CardinalityLimit.                                    *)
(***************************************************************************)
\* C28: a quota never holds more than window / granularity + 1 granules.
C28_GranuleBound ==
    \A i \in 1 .. Len(quotas) :
        Cardinality(DOMAIN quotas[i].usage)
            <= (quotas[i].window \div quotas[i].granularity) + 1

\* every hash held in some granule of the quota
HashesIn(q) == UNION {q.usage[k] : k \in DOMAIN q.usage}

\* C29: a submit that does not forward (a quota does not fit, or downstream
\* signals Overloaded) adds no hash and no granule to any quota; a submit
\* that forwards leaves the hash in every quota.
C29_RecordsForwarded ==
    [][ CLSubmit =>
          LET hash == last_submit'.hash
              outcome == last_submit'.outcome
          IN /\ outcome # "forwarded" =>
                   /\ forwarded' = forwarded
                   /\ \A i \in 1 .. Len(quotas) :
                         \A k \in DOMAIN quotas'[i].usage :
                             /\ k \in DOMAIN quotas[i].usage
                             /\ quotas'[i].usage[k] = quotas[i].usage[k]
             /\ outcome = "forwarded" =>
                   /\ forwarded' = forwarded \cup {<<now, hash>>}
                   /\ \A i \in 1 .. Len(quotas) : hash \in HashesIn(quotas'[i]) ]_vars

\* the second quota dropped a metric that fit the first: the hash is in neither
C29_Witness ==
    /\ last_submit.op = "submit"
    /\ last_submit.outcome = "dropped"
    /\ last_submit.by = 2
    /\ HashesIn(quotas[1]) # {}
    /\ \A i \in 1 .. Len(quotas) : last_submit.hash \notin HashesIn(quotas[i])

\* the distinct hashes forwarded in the `window` seconds that end at second `at`
ForwardedWithin(window, at) ==
    {h \in MetricHashes : \E t \in (at - window + 1) .. at : <<t, h>> \in forwarded}

\* C30: a hash forwarded `window` seconds ago or earlier does not count: a
\* quota drops a metric only when `limit` other hashes were forwarded less
\* than `window` seconds before it, and so not when nothing was forwarded in
\* that time.
C30_Expiry ==
    (last_submit.op = "submit" /\ last_submit.outcome = "dropped") =>
        LET q == quotas[last_submit.by]
            counting == ForwardedWithin(q.window, last_submit.at) \ {last_submit.hash}
        IN /\ Cardinality(counting) >= q.limit
           /\ counting # {}

\* limit 1, window 2: hash 1 went through at the first second, hash 2 two
\* seconds later
C30_Witness ==
    /\ Len(quotas) = 1
    /\ quotas[1].window = 2
    /\ quotas[1].limit = 1
    /\ last_submit.op = "submit"
    /\ last_submit.outcome = "forwarded"
    /\ last_submit.hash = 2
    /\ forwarded = {<<StartTime, 1>>, <<StartTime + 2, 2>>}

(***************************************************************************)
(* More properties of TagCardinalityLimit.                                 *)
(***************************************************************************)
\* the values of the tags of a forwarded line that the quota matches
MatchingValues(quota, raw) ==
    {MetricTag_value(TagsOfRaw(raw)[n]).bytes :
        n \in {j \in 1 .. Len(TagsOfRaw(raw)) :
                  /\ QuotaMatches(quota, TagsOfRaw(raw)[j])
                  /\ MetricTag_value(TagsOfRaw(raw)[j]).some}}

\* C31: a submit forwards the metric and then leaves in values_seen of each
\* quota what was there plus the values of the tags of the forwarded metric
\* that match the quota: nothing comes from a tag that was dropped or has no
\* value, and nothing is taken out.
C31_RecordsAfterForward ==
    [][ TagSubmit =>
          /\ Len(tag_out') = Len(tag_out) + 1
          /\ \A i \in 1 .. Len(tag_quotas) :
                /\ tag_quotas'[i].tag = tag_quotas[i].tag
                /\ tag_quotas'[i].limit = tag_quotas[i].limit
                /\ tag_quotas'[i].values_seen =
                       tag_quotas[i].values_seen
                          \cup MatchingValues(tag_quotas[i], tag_out'[Len(tag_out')]) ]_vars

\* e:d was dropped by the full quota on e, e:p was kept: d is not recorded
C31_Witness ==
    /\ tag_last.op = "submit"
    /\ tag_last.raw = TagMetricHead \o <<"|", "#", "e", ":", "p", ",", "e", ":", "d">>
    /\ tag_out[Len(tag_out)] = TagMetricHead \o <<"|", "#", "e", ":", "p">>
    /\ Len(tag_quotas) = 1
    /\ tag_quotas[1].values_seen = {<<"p">>}

\* C32: when the drop rule removes no tag of a metric, the line forwarded is
\* the line submitted, byte for byte.
C32_PassThrough ==
    [][ TagSubmit =>
          ((\A n \in 1 .. Len(TagsOfRaw(tag_last'.raw)) :
                Kept(TagsOfRaw(tag_last'.raw)[n]))
             => tag_out'[Len(tag_out')] = tag_last'.raw) ]_vars

(***************************************************************************)
(* More properties of AggregateMetrics.                                    *)
(***************************************************************************)
\* the bucket key of the lines that have the non-value bytes nv
KeyOf(nv) == [metric_bytes |-> nv.head \o nv.tail, insert_value_at |-> Len(nv.head)]

\* what the lines the server can receive read as: bucket key, type, value
LineReads ==
    [m \in AggMetrics |->
        [key |-> KeyOf(NonValueBytes(m)),
         numeric |-> IsNumeric(m),
         ty |-> IF IsNumeric(m) THEN TypeBytes(m) ELSE <<>>,
         number |-> IF IsNumeric(m) THEN NumberOf(m) ELSE 0]]

AbsorbedAsCounter(m) ==
    LineReads[m].numeric /\ LineReads[m].ty = <<"c">> /\ config.aggregate_counters

AbsorbedAsGauge(m) ==
    LineReads[m].numeric /\ LineReads[m].ty = <<"g">> /\ config.aggregate_gauges

\* the submitted lines since the last flush that the stage absorbed
AbsorbedSince == {k \in 1 .. Len(since_flush) :
                     AbsorbedAsCounter(since_flush[k]) \/ AbsorbedAsGauge(since_flush[k])}

\* the sum of the counters among the first n lines since the last flush
\* that have the bucket key
RECURSIVE SumSince(_, _)
SumSince(key, n) ==
    IF n = 0 THEN 0
    ELSE (IF AbsorbedAsCounter(since_flush[n]) /\ LineReads[since_flush[n]].key = key
          THEN LineReads[since_flush[n]].number ELSE 0) + SumSince(key, n - 1)

\* the last line since the last flush that is a gauge with the bucket key
LastSince(key) ==
    CHOOSE k \in AbsorbedSince :
        /\ AbsorbedAsGauge(since_flush[k]) /\ LineReads[since_flush[k]].key = key
        /\ \A l \in AbsorbedSince :
              AbsorbedAsGauge(since_flush[l]) /\ LineReads[since_flush[l]].key = key
                  => l <= k

\* the map holds what was absorbed since the last flush and nothing else: a
\* key for each absorbed line, a counter bucket with the sum of its lines, a
\* gauge bucket with the value of its last line
MapIsSinceFlush ==
    /\ DOMAIN metrics_map = {LineReads[since_flush[k]].key : k \in AbsorbedSince}
    /\ \A k \in AbsorbedSince :
          LET key == LineReads[since_flush[k]].key
          IN IF AbsorbedAsCounter(since_flush[k])
             THEN metrics_map[key] = Counter(SumSince(key, Len(since_flush)))
             ELSE metrics_map[key] =
                      Gauge(LineReads[since_flush[LastSince(key)]].number)

\* C33: a flush emits one metric for each key of the map, with the value of
\* the key, and leaves the map empty; a poll that does not flush emits
\* nothing; and the map always holds just what was absorbed since the last
\* flush, so no value is emitted twice or carried into a later flush and the
\* counters emitted add up to the counters absorbed.
C33_EmitOnce ==
    /\ []MapIsSinceFlush
    /\ [][ AggPollStep =>
             IF last_poll'.flushed
             THEN /\ metrics_map' = <<>>
                  /\ Len(Emitted) = Cardinality(DOMAIN metrics_map)
                  /\ \A key \in DOMAIN metrics_map :
                        Cardinality({i \in 1 .. Len(Emitted) :
                                        Emitted[i] = BucketMetric(key, metrics_map[key])}) = 1
             ELSE next_out' = next_out /\ metrics_map' = metrics_map ]_vars

\* the same gauge absorbed in two flush intervals: each flush emitted it once
C33_Witness ==
    /\ last_poll.op = "poll" /\ last_poll.flushed /\ last_poll.drained = 1
    /\ last_flushed_at = 10
    /\ metrics_map = <<>>
    /\ next_out = << <<"a", ":", "3", "|", "g">>, <<"a", ":", "3", "|", "g">> >>

\* C34: absorbed metrics with the same bucket key are of the same kind, and
\* no bucket holds the outcome of merging a counter with a gauge (the panic
\* branch of BucketValue::merge).
C34_NoMixedMerge ==
    /\ \A key \in DOMAIN metrics_map : metrics_map[key].kind \in {"Counter", "Gauge"}
    /\ \A j, k \in AbsorbedSince :
          LineReads[since_flush[j]].key = LineReads[since_flush[k]].key
              => (AbsorbedAsCounter(since_flush[j]) <=> AbsorbedAsCounter(since_flush[k]))

\* a counter and a gauge of the same name, absorbed into two buckets
C34_Witness ==
    /\ since_flush = << <<"a", ":", "1", "|", "c">>, <<"a", ":", "3", "|", "g">> >>
    /\ Cardinality(DOMAIN metrics_map) = 2
    /\ {metrics_map[key].kind : key \in DOMAIN metrics_map} = {"Counter", "Gauge"}

(***************************************************************************)
(* The server in front of AggregateMetrics while it keeps running: no      *)
(* signal arrives, the clock only moves forward, and each call on the      *)
(* stage is recorded with the second at which it was made.                 *)
(***************************************************************************)
MaxLiveClock == 13    \* the clock stops at MaxLiveClock

\* the metric lines received while the server keeps running
LiveMetrics ==
    { <<"a", ":", "1", "|", "c">>,
      <<"a", ":", "3", "|", "g">> }

\* the configurations whose flush interval ends twice before the clock stops
LiveConfigs == {cfg \in AggregateConfigs : 2 * cfg.flush_interval < MaxLiveClock}

LiveInit == AggInit /\ config \in LiveConfigs

\* a second passes; inside one pass of the loop only while a whole flush
\* interval is left before the clock stops
LiveClockAdvance ==
    /\ now < MaxLiveClock
    /\ pc = "recv" \/ now + 1 + config.flush_interval <= MaxLiveClock
    /\ now' = now + 1
    /\ UNCHANGED <<srvVars, upVars, clVars, aggVars,
                   callVars, tagVars, tyVars, stVars, pipeVars, sinkVars>>

\* recv_from returned a datagram holding one metric line; none arrives in
\* the last flush interval before the clock stops
LiveRecvDatagram ==
    /\ pc = "recv"
    /\ ~stop
    /\ Len(submitted) < MaxLines
    /\ now + config.flush_interval <= MaxLiveClock
    /\ \E m \in LiveMetrics : lines' = <<m>>
    /\ pc' = "poll"
    /\ UNCHANGED <<now, stop, received, upVars, clVars, aggVars,
                   callVars, tagVars, tyVars, stVars, pipeVars, sinkVars>>

LiveLineSubmit ==
    /\ pc = "submit"
    /\ AggregateMetrics_submit(Head(lines))
    /\ submitted' = Append(submitted, [metric |-> Head(lines), at |-> now])
    /\ head_call' = "submit"
    /\ lines' = Tail(lines)
    /\ pc' = IF Tail(lines) = <<>> THEN "recv" ELSE "poll"
    /\ UNCHANGED <<now, stop, received, config, last_flushed_at, last_poll,
                   upVars, clVars,
                   tagVars, tyVars, stVars, pipeVars, sinkVars>>

LiveNext ==
    \/ LiveClockAdvance
    \/ LiveRecvDatagram
    \/ AggRecvTimeout
    \/ AggLinePoll
    \/ LiveLineSubmit

\* time passes; recv_from returns after its read timeout of one second at
\* the latest, and the loop then runs poll; a pass over a datagram runs to
\* its end
SpecAggregateLive ==
    /\ LiveInit
    /\ [][LiveNext]_vars
    /\ WF_vars(LiveClockAdvance)
    /\ WF_vars(AggRecvTimeout)
    /\ WF_vars(AggLinePoll)
    /\ WF_vars(LiveLineSubmit)

\* the calls of submit that absorbed a metric still in the map
PendingSubmits ==
    {k \in 1 .. Len(submitted) :
        /\ k > Len(submitted) - Len(since_flush)
        /\ AbsorbedAsCounter(submitted[k].metric) \/ AbsorbedAsGauge(submitted[k].metric)}

\* the end of the flush interval that holds the second t
BucketEnd(t) == (t \div config.flush_interval) * config.flush_interval
                    + config.flush_interval

\* C35: while the server keeps polling and the clock advances, a map that
\* holds absorbed metrics is eventually flushed; and with flush_offset = 0 a
\* poll at or after the end of the flush interval in which a metric still in
\* the map was submitted flushes.
C35_EventualEmission ==
    /\ (metrics_map # <<>>) ~> (metrics_map = <<>> /\ last_poll.op = "poll" /\ last_poll.flushed)
    /\ [][ (/\ AggPollStep
            /\ config.flush_offset = 0
            /\ \E k \in PendingSubmits : BucketEnd(submitted[k].at) <= now)
              => /\ last_poll'.flushed
                 /\ metrics_map' = <<>>
                 /\ Len(next_out') = Len(next_out) + Cardinality(DOMAIN metrics_map) ]_vars

\* a gauge absorbed at second 3 came out at an idle poll of second 5
C35_Witness ==
    /\ config.flush_interval = 5
    /\ submitted = << [metric |-> <<"a", ":", "3", "|", "g">>, at |-> 3] >>
    /\ last_poll.op = "poll" /\ last_poll.flushed /\ last_poll.drained = 1
    /\ now = 5
    /\ pc = "recv"
    /\ metrics_map = <<>>
    /\ next_out = << <<"a", ":", "3", "|", "g">> >>

(***************************************************************************)
(* AggregateMetrics::poll over the configurations the configuration file   *)
(* can give: a flush interval in milliseconds, a signed flush offset.      *)
(***************************************************************************)
MaxArithClock == 5    \* the clock stays within 0 .. MaxArithClock

\* Duration::from_millis, as deserialize_duration builds the interval
Duration_from_millis(v) == [millis |-> v]

\* Duration::as_secs: the whole seconds of the interval
Duration_as_secs(d) == d.millis \div 1000

\* flush_interval values of a configuration file, in milliseconds
ArithIntervals == {0, 125, 1000, 2000}

\* flush_offset values of a configuration file
ArithOffsets == {-1, 0, 1}

ArithConfigs ==
    { [aggregate_counters |-> TRUE, aggregate_gauges |-> TRUE,
       flush_interval |-> Duration_as_secs(Duration_from_millis(v)),
       flush_interval_millis |-> v,
       flush_offset |-> o,
       max_map_size |-> [some |-> FALSE]] : v \in ArithIntervals, o \in ArithOffsets }

ArithInit ==
    /\ now = 0
    /\ ServerIdle
    /\ StageIdle
    /\ PipelineIdle
    /\ SinkIdle
    /\ UpstreamIdle
    /\ CardinalityIdle
    /\ TagCardinalityIdle
    /\ MetricIdle
    /\ config \in ArithConfigs
    /\ metrics_map = <<>>
    /\ last_flushed_at = 0
    /\ next_out = <<>>
    /\ since_flush = <<>>
    /\ last_poll = [op |-> "none"]

ArithClockChange ==
    /\ pc # "panicked"
    /\ \E t \in {now - 1, now + 1} \cap (0 .. MaxArithClock) : now' = t
    /\ UNCHANGED <<srvVars, upVars, clVars, aggVars,
                   callVars, tagVars, tyVars, stVars, pipeVars, sinkVars>>

\* poll on a receive timeout: now / flush_interval panics on a zero
\* divisor, u64::try_from(..).expect(..) panics on a negative bucket edge
ArithPoll ==
    /\ pc = "recv"
    /\ IF config.flush_interval = 0
       THEN /\ pc' = "panicked"
            /\ last_poll' = [op |-> "poll", panic |-> "attempt to divide by zero"]
            /\ UNCHANGED <<metrics_map, since_flush, last_flushed_at, next_out>>
       ELSE IF rounded_bucket(config, now) < 0
       THEN /\ pc' = "panicked"
            /\ last_poll' = [op |-> "poll",
                             panic |-> "overflow when calculating with flush_interval"]
            /\ UNCHANGED <<metrics_map, since_flush, last_flushed_at, next_out>>
       ELSE /\ AggregateMetrics_poll(now)
            /\ UNCHANGED pc
    /\ UNCHANGED <<now, stop, lines, received, config, upVars, clVars,
                   callVars, tagVars, tyVars, stVars, pipeVars, sinkVars>>

ArithNext == ArithClockChange \/ ArithPoll

SpecArith == ArithInit /\ [][ArithNext]_vars

\* C40: for every accepted flush_interval and flush_offset and every clock
\* value, poll computes the bucket edge without a panic, and last_flushed_at
\* does not decrease.
C40_ArithmeticTotal ==
    [][ ArithPoll => /\ pc' # "panicked"
                     /\ last_flushed_at' >= last_flushed_at ]_vars

(***************************************************************************)
(* More properties of Metric.                                              *)
(***************************************************************************)
\* C36: after Metric::new and any calls of set_tags, a tag range (i, j) has
\* the bytes `|#` right before i, lies within raw with i <= j, and ends at
\* the end of raw or at a '|'; a Metric without a tag range has no tags().
C36_TagRange ==
    last_call.op \in {"new", "set_tags"} =>
        IF self_metric.tags_pos.some
        THEN LET i == self_metric.tags_pos.start
                 j == self_metric.tags_pos.end
                 raw == self_metric.raw
             IN /\ i >= 2
                /\ Slice(raw, i - 2, i) = <<"|", "#">>
                /\ i <= j
                /\ j <= Len(raw)
                /\ j = Len(raw) \/ raw[j + 1] = "|"
        ELSE ~Metric_tags(self_metric).some

\* the tag list of u|#u|u replaced by a longer one: the range ends at the '|'
\* of the extension that follows
C36_Witness ==
    /\ last_call.op = "set_tags"
    /\ last_call.before = Metric_new(<<"u", "|", "#", "u", "|", "u">>)
    /\ self_metric = [raw |-> <<"u", "|", "#", "t", ":", "v", ",", "w", "|", "u">>,
                      tags_pos |-> Some(3, 8)]

\* C37: a Metric that equals the parse of its bytes still does after
\* set_tags with tag bytes that hold no '|', whatever the line.
C37_EqualsReparse ==
    [][ (/\ SetTags
         /\ \A n \in 1 .. Len(last_call'.tags) : last_call'.tags[n] # "|"
         /\ self_metric = Metric_new(self_metric.raw))
           => self_metric' = Metric_new(self_metric'.raw) ]_vars

(***************************************************************************)
(* More properties of the Upstream.                                        *)
(***************************************************************************)
\* the metrics ms[a .. b] joined by single newlines
RECURSIVE JoinedLines(_, _, _)
JoinedLines(ms, a, b) ==
    IF a > b THEN <<>>
    ELSE IF a = b THEN ms[a]
    ELSE ms[a] \o <<NL(1)>> \o JoinedLines(ms, a + 1, b)

\* the bytes are one or more whole submitted metrics, in the order of their
\* submission, with one newline between two of them
WholeMetrics(bytes) ==
    \E a \in 1 .. Len(submitted) : \E b \in a .. Len(submitted) :
        Normalize(bytes) = Normalize(JoinedLines(submitted, a, b))

\* C38: buf_used stays within the buffer and no write goes past its end; a
\* non-empty buffer holds the latest submitted metrics whole, joined by
\* single newlines; a datagram sent from the buffer is at most BUFSIZE bytes
\* of whole metrics.
C38_BufferInvariant ==
    /\ buf_used \in 0 .. BUFSIZE
    /\ ByteLen(buffer) = BUFSIZE
    /\ buf_used > 0 =>
          \E a \in 1 .. Len(submitted) :
              Normalize(TakeBytes(buffer, buf_used))
                  = Normalize(JoinedLines(submitted, a, Len(submitted)))
    /\ \A k \in 1 .. Len(sent) :
          sent[k].via = "flush" =>
              /\ ByteLen(sent[k].data) \in 1 .. BUFSIZE
              /\ WholeMetrics(sent[k].data)

\* two metrics and their separator fill the buffer to its last byte
C38_Witness ==
    /\ buf_used = BUFSIZE
    /\ submitted = << <<Run("a", 4095)>>, <<Run("b", 4096)>> >>
    /\ sent = <<>>

(***************************************************************************)
(* The server over the Upstream alone while it keeps running: no signal    *)
(* and no receive error arrive, and the clock goes on.                     *)
(***************************************************************************)
MaxUpLiveClock == 4   \* the clock stops at StartTime + MaxUpLiveClock

\* a second passes; a clock that was set back behind last_sent_at is read by
\* the next poll before it has caught up; inside one pass of the loop, and
\* for a datagram to arrive, two seconds must be left before the clock stops
UpLiveClockAdvance ==
    /\ now < StartTime + MaxUpLiveClock
    /\ now >= last_sent_at
    /\ pc = "recv" \/ now + 3 <= StartTime + MaxUpLiveClock
    /\ now' = now + 1
    /\ UNCHANGED <<srvVars, upVars, clVars, aggVars,
                   callVars, tagVars, tyVars, stVars, pipeVars, sinkVars>>

\* the clock is set back by a second, behind the time of the last flush,
\* while metrics wait in the buffer
UpLiveClockSetBack ==
    /\ pc = "recv"
    /\ buf_used > 0
    /\ now = last_sent_at
    /\ now > StartTime
    /\ now' = now - 1
    /\ UNCHANGED <<srvVars, upVars, clVars, aggVars,
                   callVars, tagVars, tyVars, stVars, pipeVars, sinkVars>>

UpLiveRecvDatagram ==
    /\ now + 2 <= StartTime + MaxUpLiveClock
    /\ RecvDatagram

UpLiveNext ==
    \/ UpLiveClockAdvance
    \/ UpLiveClockSetBack
    \/ UpLiveRecvDatagram
    \/ RecvTimeout
    \/ LinePoll
    \/ LineSubmit

\* time passes; recv_from returns after its read timeout of one second at
\* the latest, and the loop then runs poll; a pass over a datagram runs to
\* its end
SpecUpstreamLive ==
    /\ UpInit
    /\ [][UpLiveNext]_vars
    /\ WF_vars(UpLiveClockAdvance)
    /\ WF_vars(RecvTimeout)
    /\ WF_vars(LinePoll)
    /\ WF_vars(LineSubmit)

UpPollStep == RecvTimeout \/ LinePoll

\* C39: while the server keeps polling and the clock advances, a non-empty
\* buffer is eventually sent, after which every metric submitted so far has
\* gone out; and a poll that reads the clock more than a second after
\* last_sent_at, or before last_sent_at, sends the whole buffer.
C39_EventualSend ==
    /\ (buf_used > 0) ~> (buf_used = 0 /\ SentLines = submitted)
    /\ [][ (/\ UpPollStep
            /\ buf_used > 0
            /\ now - last_sent_at > 1 \/ now < last_sent_at)
              => /\ buf_used' = 0
                 /\ sent' = Append(sent, [data |-> TakeBytes(buffer, buf_used),
                                          via |-> "flush"]) ]_vars

\* a metric buffered at the second of the last flush went out at a poll that
\* read the clock one second earlier
C39_Witness ==
    /\ head_call = "poll"
    /\ pc = "recv"
    /\ submitted = << <<Run("a", 5)>> >>
    /\ sent = << [data |-> <<Run("a", 5)>>, via |-> "flush"] >>
    /\ last_sent_at = StartTime + 1
    /\ now = StartTime + 1
    /\ buf_used = 0

====
